---- MODULE Spec2Model ----
(***************************************************************************)
(* Map template editor: the pin list, the rendered markers, the county     *)
(* overlay and the basemap switch of the map module, driven by the         *)
(* list/editor view controller of the application module.                  *)
(*                                                                         *)
(* Pin coordinates, camera values and county geometry are drawn from small *)
(* finite sets.  An asynchronous function is cut at each await: the part   *)
(* before the await is one action, each continuation another, and the      *)
(* suspended call is an element of tasks, countyCalls or switches.         *)
(***************************************************************************)
EXTENDS Integers, Sequences, FiniteSets, TLC

\* ------------------------------------------------------------------ bounds
MaxPinId == 2        \* addPin is enabled while nextPinId <= MaxPinId
MaxOverlap == 1      \* switchBasemap calls made while MaxSwitches are pending
MaxEarlyDrags == 1   \* drags started within the grace delay of the previous drag
MaxTimers == 1       \* pending grace timers per marker
MaxTasks == 2        \* suspended showEditorView / load continuations
MaxCalls == 2        \* updateCountyBoundaries calls awaiting their fetch
MaxSwitches == 1     \* switchBasemap calls awaiting their signals
MaxCompPinId == 3    \* addPin of the comp-type draft is enabled up to this id
MaxRequest == 2      \* names in the argument list of a fetchGeorgiaCounties call
MaxSaveCalls == 2    \* createMap / updateMap calls of handleSave in flight
MaxCreated == 2      \* templates created by createMap
MaxDeleteCalls == 2  \* deleteMap calls in flight

\* ------------------------------------------------------- program constants
GraceDelayMs == 100  \* setTimeout delay that clears isDragging after dragend

Null == "null"
TemplateIds == {"t1", "t2"}
Basemaps == {"street", "gray", "satellite"}
Counties == {"Hall", "White"}
\* the names fetchGeorgiaCounties is called with on its own
FetchCounties == Counties \cup {"Banks"}
\* the outcome of the fetch of one county file
FetchResults == {"ok", "httpError", "thrown"}
\* getRelevantMapState(null)
NoRelevantState ==
    [isNull |-> TRUE, pins |-> <<>>,
     countyBoundaries |-> [enabled |-> FALSE, selectedCounties |-> <<>>]]

\* ------------------------------------------------------------ small helpers
Range(s) == {s[i] : i \in 1..Len(s)}

RemoveAt(s, i) == SubSeq(s, 1, i - 1) \o SubSeq(s, i + 1, Len(s))

\* Array.prototype.findIndex(p => p.id === id): first index, 0 for -1
FindIndexById(pins, id) ==
    IF \E i \in 1..Len(pins) : pins[i].id = id
    THEN CHOOSE i \in 1..Len(pins) :
            /\ pins[i].id = id
            /\ \A j \in 1..(i - 1) : pins[j].id # id
    ELSE 0

Ids(pins) == [i \in 1..Len(pins) |-> pins[i].id]

Clamp(x, lo, hi) == IF x < lo THEN lo ELSE IF x > hi THEN hi ELSE x

\* bearing is kept in (-180, 180]
WrapBearing(b) ==
    LET r == ((b + 180) % 360) - 180
    IN IF r = -180 THEN 180 ELSE r

\* ---------------------------------------------------------------- pin ids
\* `pin-${n}`
PinIdOf(n) == [prefix |-> "pin", num |-> n]

\* parseInt(id.split('-')[1], 10)
ParseIdNum(id) == id.num

\* ------------------------------------------------------------- coordinates
LngLats == {[lng |-> -84, lat |-> 33], [lng |-> -83, lat |-> 34]}

\* [lngLat.lng, lngLat.lat]
ToArray(p) == <<p.lng, p.lat>>

\* LngLat.convert of a [lng, lat] array
FromArray(a) == [lng |-> a[1], lat |-> a[2]]

\* ------------------------------------------------------------------ camera
DefaultCamera == [center |-> <<-84, 34>>, zoom |-> 10, bearing |-> 0, pitch |-> 0]

Camera2 == [center |-> <<-84, 33>>, zoom |-> 12, bearing |-> 90, pitch |-> 45]
\* the cameras a pan, zoom or rotate gesture can reach
Cameras == {DefaultCamera, Camera2}

\* the camera a map takes from constructor options or jumpTo
MapCamera(c) ==
    [center |-> c.center,
     zoom |-> Clamp(c.zoom, 0, 22),
     bearing |-> WrapBearing(c.bearing),
     pitch |-> Clamp(c.pitch, 0, 85)]

\* --------------------------------------------------- default and saved state
DefaultCounty == [enabled |-> FALSE, selectedCounties |-> <<>>]

Pin(n, p, k) == [id |-> PinIdOf(n), lngLat |-> ToArray(p), number |-> k]

PA == [lng |-> -84, lat |-> 33]
PB == [lng |-> -83, lat |-> 34]

\* DEFAULT_MAP_STATE with its pins array empty, as the script is loaded
DefaultState ==
    [camera |-> DefaultCamera, basemap |-> "street", pins |-> <<>>,
     countyBoundaries |-> DefaultCounty]

\* ------------------------------------------------------------------- state
VARIABLES
    currentView,    \* 'list' or 'editor'
    currentMapId,   \* Null for a new map, a template id for an existing one
    mapExists,      \* the global map is not null
    camera,         \* camera of the global map instance
    userPins,       \* map.userData.pins
    pinsShared,     \* map.userData.pins is the DEFAULT_MAP_STATE.pins array itself
    userCounty,     \* map.userData.countyBoundaries
    userBasemap,    \* map.userData.basemap
    defaultPins,    \* DEFAULT_MAP_STATE.pins (one array object for the page's life)
    mapMarkers,     \* the global marker list
    nextPinId,      \* the global id counter
    clickHandlers,  \* 'click' listeners enablePinPlacement registered on the map
    dragging,       \* index in mapMarkers of the marker being dragged, 0 for none
    styleLoaded,    \* the map's style has finished loading
    source,         \* the 'counties' source: present flag and its features
    layer,          \* the 'county-boundaries-line' layer: present flag and colour
    toggleChecked,  \* toggleCounties.checked
    selectedUI,     \* the selected options of countySelect
    basemapRadio,   \* the checked basemap radio button
    countyCalls,    \* updateCountyBoundaries calls suspended at their fetch
    switches,       \* switchBasemap calls suspended at a signal or a fetch
    tasks,          \* suspended showEditorView / loadExistingMap continuations
    store,          \* the templates of the remote store: id -> map_state
    pristine,       \* history: no user action since initializeMap made the map
    resolved,       \* history: the switchBasemap calls resolved by the last step
    lastOp,         \* history: the pin or save handler that ran last, else "none"
    comp,           \* the comp-type draft: category buckets, active comp type
    fetch,          \* a fetchGeorgiaCounties call: its arguments and its result
    save,           \* handleSave: name field, Save button, store calls in flight
    nav,            \* window.location.hash, and (history) the hash the page was loaded with
    ui              \* loading indicator, delete dialog, export button and map controls

vars ==
    <<currentView, currentMapId, mapExists, camera, userPins, pinsShared,
      userCounty, userBasemap, defaultPins, mapMarkers, nextPinId,
      clickHandlers, dragging, styleLoaded, source, layer, toggleChecked,
      selectedUI, basemapRadio, countyCalls, switches, tasks, store, pristine,
      resolved, lastOp, comp, fetch, save, nav, ui>>

\* the state of the editor proper: everything but the comp-type draft, the
\* fetch call and the save state
mainVars ==
    <<currentView, currentMapId, mapExists, camera, userPins, pinsShared,
      userCounty, userBasemap, defaultPins, mapMarkers, nextPinId,
      clickHandlers, dragging, styleLoaded, source, layer, toggleChecked,
      selectedUI, basemapRadio, countyCalls, switches, tasks, store, pristine, resolved, lastOp>>

pinVars == <<userPins, pinsShared, defaultPins, mapMarkers, nextPinId, dragging>>

NoSource == [present |-> FALSE, features |-> <<>>, names |-> <<>>]
NoLayer == [present |-> FALSE, color |-> "none"]

\* ---------------------------------------------------------- pin operations
\* a mutation of addPin: the number is the count of the existing pins
PinNumberZeroBased(pins) == Len(pins)

\* addPin: the number of the new pin
PinNumberFor(pins) == Len(pins) + 1

\* addPin: nextPinId++
AdvancePinId(n) == n + 1

\* addPin: pinData
NewPinData(pins, n, lngLat) ==
    [id |-> PinIdOf(n), lngLat |-> ToArray(lngLat), number |-> PinNumberFor(pins)]

\* addPin: the marker created for pinData (pinData is shared with the pin list)
NewMarker(pinData, lngLat) ==
    [pinData |-> pinData, pos |-> lngLat, label |-> pinData.number,
     isDragging |-> FALSE, timers |-> 0, aliased |-> TRUE, attached |-> TRUE]

\* restorePins: the marker created for a saved pin (pinData is a copy)
RestoredMarker(pinData) ==
    [pinData |-> pinData, pos |-> FromArray(pinData.lngLat),
     label |-> pinData.number,
     isDragging |-> FALSE, timers |-> 0, aliased |-> FALSE, attached |-> TRUE]

\* restorePins: the markers pushed by the forEach, in order
RestoredMarkers(pins) == [i \in 1..Len(pins) |-> RestoredMarker(pins[i])]

\* a mutation of restorePins: the id counter is left as it is
KeepCounter(n, id) == n

\* a mutation of restorePins: the id counter is set from the restored id
ResetToRestoredId(n, id) == ParseIdNum(id) + 1

\* restorePins: "Track highest pin ID", one forEach iteration
TrackHighestId(n, id) == IF ParseIdNum(id) >= n THEN ParseIdNum(id) + 1 ELSE n

RECURSIVE RestoredNextId(_, _)
\* restorePins: nextPinId after the forEach over pins
RestoredNextId(n, pins) ==
    IF pins = <<>> THEN n
    ELSE RestoredNextId(TrackHighestId(n, Head(pins).id), Tail(pins))

\* updateMapPins: the pin list rebuilt from the marker list
UpdateMapPins(markers) ==
    [i \in 1..Len(markers) |->
        [id |-> markers[i].pinData.id,
         lngLat |-> markers[i].pinData.lngLat,
         number |-> markers[i].pinData.number]]

\* deletePin: mapMarkers.splice(index, 1)
SpliceMarker(markers, i) == RemoveAt(markers, i)

\* a mutation of deletePin: the last entry of the list is removed
SpliceLastPin(pins, id) == SubSeq(pins, 1, Len(pins) - 1)

\* deletePin: findIndex by id, then splice
SplicePin(pins, id) ==
    LET k == FindIndexById(pins, id)
    IN IF k > 0 THEN RemoveAt(pins, k) ELSE pins

\* a mutation of a marker's pinData reaches DEFAULT_MAP_STATE.pins when that
\* array holds the same object (objects pushed by addPin into the shared array)
TouchShared(dpins, m) ==
    IF m.aliased
    THEN [i \in 1..Len(dpins) |->
            IF dpins[i].id = m.pinData.id THEN m.pinData ELSE dpins[i]]
    ELSE dpins

\* map.remove(), or the global map replaced by a new instance over the same
\* container: the markers of the old instance are no longer reachable (their
\* drag flag and grace timers are read by no handler any more)
Detach(markers) ==
    [i \in 1..Len(markers) |->
        [markers[i] EXCEPT !.attached = FALSE, !.isDragging = FALSE, !.timers = 0]]

\* clearAllPins: marker.remove() for each marker, mapMarkers = []
ClearedMarkers == <<>>

\* ------------------------------------------------------- saved templates
\* map states a save of this program has written (getMapState's shape)
SavedPinned ==
    [camera |-> Camera2, basemap |-> "gray", pins |-> <<Pin(1, PA, 1)>>,
     countyBoundaries |-> DefaultCounty]

SavedEmpty ==
    [camera |-> DefaultCamera, basemap |-> "street", pins |-> <<>>,
     countyBoundaries |-> DefaultCounty]

SavedOverlay ==
    [camera |-> Camera2, basemap |-> "satellite", pins |-> <<Pin(2, PB, 5)>>,
     countyBoundaries |-> [enabled |-> TRUE, selectedCounties |-> <<"Hall">>]]

SavedHidden ==
    [camera |-> DefaultCamera, basemap |-> "gray", pins |-> <<>>,
     countyBoundaries |->
         [enabled |-> FALSE, selectedCounties |-> <<"Hall", "White">>]]

\* the templates of the store when the page is loaded
PinStore == [id \in TemplateIds |-> IF id = "t1" THEN SavedPinned ELSE SavedEmpty]

OverlayStore ==
    [id \in TemplateIds |-> IF id = "t1" THEN SavedOverlay ELSE SavedHidden]

\* ----------------------------------------------------------------- tasks
Task(kind, id, data) == [kind |-> kind, id |-> id, data |-> data, stale |-> FALSE]

IsLoadTask(t) == t.kind \in {"loadNew", "loadExisting"}

\* the global map is replaced by a new instance: pending 'load' events of the
\* old instance still fire, on handlers that read the global map
Orphaned(ts) == {IF IsLoadTask(t) THEN [t EXCEPT !.stale = TRUE] ELSE t : t \in ts}

\* map.remove(): the removed instance fires no further 'load' event
WithoutLiveLoads(ts) == {t \in ts : ~(IsLoadTask(t) /\ ~t.stale)}

\* calls on an instance that is no longer the global map change nothing of
\* it; only the continuation of a call made by a load handler still runs
StaleCalls(calls) ==
    LET keep == SelectSeq(calls, LAMBDA c : c.cont = "load")
    IN [i \in 1..Len(keep) |-> [keep[i] EXCEPT !.stale = TRUE]]

\* setupMapControls, county part: the controls take the map's overlay state
SetupToggle(county) == county.enabled
SetupSelected(county) == Range(county.selectedCounties) \cap Counties

\* getSelectedCounties: the selected options, in option (alphabetical) order
SelectedList(sel) ==
    (IF "Hall" \in sel THEN <<"Hall">> ELSE <<>>)
        \o (IF "White" \in sel THEN <<"White">> ELSE <<>>)

\* ------------------------------------------------- comp types (categories)
CompTypes == {"sales", "rent", "land"}

\* a field of a persisted map_state: present with a value, or undefined
Field(v) == [defined |-> TRUE, val |-> v]
Undefined == [defined |-> FALSE, val |-> <<>>]

\* JavaScript truthiness of a field holding an array or a non-empty string
Truthy(f) == f.defined

\* persisted states of the two shapes: the flat list written by getMapState,
\* and the buckets getRelevantMapState reads
LegacyState(pins) ==
    [pins |-> Field(pins), salePins |-> Undefined, rentPins |-> Undefined,
     landPins |-> Undefined, currentCompType |-> Undefined]

BucketState(sale, rent, land, type) ==
    [pins |-> Undefined, salePins |-> Field(sale), rentPins |-> Field(rent),
     landPins |-> Field(land), currentCompType |-> Field(type)]

\* a persisted state that holds the flat list beside a sales bucket
MixedState(pins, sale) ==
    [pins |-> Field(pins), salePins |-> Field(sale), rentPins |-> Undefined,
     landPins |-> Undefined, currentCompType |-> Undefined]

CompSaved ==
    { LegacyState(<<Pin(1, PA, 1), Pin(2, PB, 2)>>),
      LegacyState(<<>>),
      BucketState(<<Pin(1, PA, 1)>>, <<Pin(2, PB, 1)>>, <<>>, "rent"),
      MixedState(<<Pin(1, PA, 1)>>, <<>>),
      MixedState(<<Pin(1, PA, 1)>>, <<Pin(2, PB, 1)>>) }

\* the comp-type state while no map is open: the radio group and the id
\* counter outlive the map
NoCompMap(radio, next) ==
    [open |-> FALSE, salePins |-> <<>>, rentPins |-> <<>>, landPins |-> <<>>,
     currentCompType |-> "sales", radio |-> radio, nextPinId |-> next,
     markers |-> <<>>,
     from |-> LegacyState(<<>>), fresh |-> FALSE, added |-> "none"]

\* no fetchGeorgiaCounties call of its own has been made
NoFetch ==
    [names |-> <<>>, outcomes |-> [n \in FetchCounties |-> "ok"],
     done |-> FALSE, result |-> [type |-> "none", features |-> <<>>]]

\* a value of getRelevantMapState(map) for a map: the pins and the county
\* overlay state
Relevant(pins, county) ==
    [isNull |-> FALSE, pins |-> pins, countyBoundaries |-> county]

\* getRelevantMapState: the pins and the county overlay state of the global
\* map (the pin list of the map stands for the pin lists the function reads),
\* null without a map
GetRelevantMapState ==
    IF mapExists THEN Relevant(userPins, userCounty) ELSE NoRelevantState

\* the 'load' listener of loadExistingMap after await
\* restoreCountyBoundaries: lastSavedState = getRelevantMapState(map)
LoadRecorded(s, relevant) == [s EXCEPT !.lastSaved = relevant]

\* the page before the first handleSave: empty name field, Save enabled, no
\* template created by createMap yet (created counts them); sessionCreates
\* and sessionId are history: the templates created by the saves of the open
\* editor session, and the template that session is bound to; baseline is
\* history: the relevant state the template in the editor was created with,
\* loaded with or last saved with
NoSave ==
    [name |-> <<>>, disabled |-> FALSE, calls |-> <<>>,
     lastSaved |-> NoRelevantState, created |-> 0,
     sessionCreates |-> 0, sessionId |-> Null,
     baseline |-> NoRelevantState]

\* -------------------------------------------------- dialogs and controls
\* the delete dialog closed: no handleConfirm listener on its confirm button,
\* no deleteMap call in flight; dismissed and issued are history: the
\* templates whose dialog was dismissed, and the deleteMap calls issued by
\* the last click on the confirm button
NoDelete ==
    [open |-> FALSE, target |-> Null, listeners |-> <<>>, calls |-> <<>>,
     dismissed |-> {}, issued |-> <<>>]

\* style.display of an element that is shown, and of a hidden one
Shown == ""
Hidden == "none"

\* no export in progress: the Export button enabled, the map controls and
\* the comp-type controls shown
NoExport ==
    [phase |-> "idle", disabled |-> FALSE, mapControls |-> Shown,
     compTypeControls |-> Shown, origMap |-> Shown, origComp |-> Shown]

\* the page as loaded: the loading indicator of the editor hidden
NoUi == [loading |-> FALSE, del |-> NoDelete, export |-> NoExport]

\* loadingEditor.classList.remove('hidden') and .add('hidden')
LoadingShown(u) == [u EXCEPT !.loading = TRUE]

\* a mutation of loadExistingMap: the loading indicator is left as it is
LoadingLeft(u) == u

LoadingHidden(u) == [u EXCEPT !.loading = FALSE]

\* ------------------------------------------------------------ save state
\* the name typed into the prompt of the New Map button
NewMapName == <<"M">>

\* the name of a stored template (mapData.name)
TemplateName(id) == <<"M">>

\* mapNameInput.value = ...
NamedAs(s, name) == [s EXCEPT !.name = name]

\* showEditorView begins an editor session and showListView ends one: the
\* store calls of handleSave that are in flight belong to an earlier session
\* from now on
NewSession(s, id) ==
    [s EXCEPT !.sessionCreates = 0,
              !.sessionId = id,
              !.calls = [i \in 1..Len(s.calls) |->
                            [s.calls[i] EXCEPT !.current = FALSE]]]

\* showListView: lastSavedState = null
ListShown(s) ==
    [NewSession(s, Null) EXCEPT !.lastSaved = NoRelevantState,
                                !.baseline = NoRelevantState]

\* ------------------------------------------------------------ URL hash
\* window.location.hash: the part up to and including the first '/', and
\* the rest
Fragment(prefix, rest) == [prefix |-> prefix, rest |-> rest]

NoFragment == Fragment("", "")

\* the hashes a page load or a popstate event may present: none, '#map/'
\* with a stored id, with an id the store does not hold and with no id, and
\* a hash of another form
UnknownId == "zz"

Fragments ==
    {NoFragment, Fragment("#other/", "t1")}
        \cup {Fragment("#map/", id) : id \in TemplateIds \cup {UnknownId, ""}}

\* a mutation of getMapIdFromUrl: the text after the first '/' of any hash
AnyHashAsId(hash) == IF hash.prefix = "" THEN Null ELSE hash.rest

\* getMapIdFromUrl
GetMapIdFromUrl(hash) == IF hash.prefix = "#map/" THEN hash.rest ELSE Null

\* JavaScript truthiness of a map id: null and '' are falsy
IsTruthyId(id) == id # Null /\ id # ""

\* updateUrl: the hash after history.pushState
UpdateUrl(mapId) == IF IsTruthyId(mapId) THEN Fragment("#map/", mapId) ELSE NoFragment

\* the hash becomes h
Navigated(n, h) == [n EXCEPT !.url = h]

\* ------------------------------------------------------------------- Init
\* initializeApp: the view the page is started in, from its hash
StartedAt(hash) ==
    LET urlMapId == GetMapIdFromUrl(hash)
    IN /\ nav = [url |-> UpdateUrl(urlMapId), loaded |-> hash]
       /\ IF IsTruthyId(urlMapId)
          THEN /\ currentView = "editor"
               /\ currentMapId = urlMapId
               /\ tasks = {Task("raf", urlMapId, DefaultState)}
               /\ save = NewSession(NoSave, urlMapId)
          ELSE /\ currentView = "list"
               /\ currentMapId = Null
               /\ tasks = {}
               /\ save = ListShown(NoSave)

\* the page as its script has been loaded
InitPage(templates) ==
    /\ mapExists = FALSE
    /\ camera = DefaultCamera
    /\ userPins = <<>>
    /\ pinsShared = FALSE
    /\ userCounty = DefaultCounty
    /\ userBasemap = "street"
    /\ defaultPins = <<>>
    /\ mapMarkers = <<>>
    /\ nextPinId = 1
    /\ clickHandlers = 0
    /\ dragging = 0
    /\ styleLoaded = FALSE
    /\ source = NoSource
    /\ layer = NoLayer
    /\ toggleChecked = FALSE
    /\ selectedUI = {}
    /\ basemapRadio = "street"
    /\ countyCalls = <<>>
    /\ switches = <<>>
    /\ store = templates
    /\ pristine = FALSE
    /\ resolved = {}
    /\ lastOp = "none"
    /\ comp = NoCompMap("sales", 1)
    /\ ui = NoUi

\* the page opened without a hash
InitCore(templates) == InitPage(templates) /\ StartedAt(NoFragment)

InitWith(templates) == InitCore(templates) /\ fetch = NoFetch

\* the page opened with any hash
InitUrl == InitPage(PinStore) /\ fetch = NoFetch /\ \E h \in Fragments : StartedAt(h)

Init == InitWith(PinStore)

InitOverlay == InitWith(OverlayStore)

\* -------------------------------------------------------- view controller
\* initializeMap: the new instance becomes the global map
InitializeMap(state, isNew) ==
    /\ mapExists' = TRUE
    /\ camera' = MapCamera(state.camera)
    /\ userPins' = IF isNew THEN defaultPins ELSE state.pins
    /\ pinsShared' = isNew
    /\ userCounty' = state.countyBoundaries
    /\ userBasemap' = state.basemap
    /\ clickHandlers' = 0
    /\ styleLoaded' = FALSE
    /\ source' = NoSource
    /\ layer' = NoLayer
    /\ mapMarkers' = Detach(mapMarkers)
    /\ dragging' = 0
    /\ countyCalls' = StaleCalls(countyCalls)
    /\ switches' = <<>>
    /\ pristine' = TRUE
    /\ resolved' = {}

\* showEditorView up to its first await
ShowEditorView(id, hash) ==
    /\ currentView' = "editor"
    /\ currentMapId' = id
    /\ nav' = Navigated(nav, hash)
    /\ save' = NewSession(save, id)
    /\ tasks' = tasks \cup {Task("raf", id, DefaultState)}
    /\ pristine' = FALSE
    /\ resolved' = {}
    /\ UNCHANGED <<mapExists, camera, userPins, pinsShared, userCounty,
                   userBasemap, defaultPins, mapMarkers, nextPinId,
                   clickHandlers, dragging, styleLoaded, source, layer,
                   toggleChecked, selectedUI, basemapRadio, countyCalls, switches, store>>

\* a click on a card of the list, no earlier load or dialog pending
HandleOpenMap(id) ==
    /\ currentView = "list"
    /\ tasks = {}
    /\ id \in DOMAIN store
    /\ lastOp' = "none"
    /\ UNCHANGED <<comp, fetch, ui>>
    /\ ShowEditorView(id, UpdateUrl(id))

\* a click on a card of the list while the continuation of an earlier
\* showEditorView is still pending
HandleOpenMapOverlapping(id) ==
    /\ currentView = "list"
    /\ tasks # {}
    /\ Cardinality(tasks) < MaxTasks
    /\ id \in DOMAIN store
    /\ lastOp' = "none"
    /\ UNCHANGED <<comp, fetch, ui>>
    /\ ShowEditorView(id, UpdateUrl(id))

\* the New Map button, with a name entered in the prompt
HandleCreateNew ==
    /\ currentView = "list"
    /\ tasks = {}
    /\ lastOp' = "none"
    /\ UNCHANGED <<comp, fetch, ui>>
    /\ ShowEditorView(Null, UpdateUrl(Null))

\* showEditorView after the animation frame, existing map: loadExistingMap
\* up to await getMapById
RafExisting(t) ==
    /\ t \in tasks /\ t.kind = "raf" /\ t.id # Null
    /\ tasks' = (tasks \ {t}) \cup {Task("get", t.id, DefaultState)}
    /\ lastOp' = "none"
    /\ ui' = LoadingShown(ui)
    /\ UNCHANGED <<comp, fetch, save, nav>>
    /\ resolved' = {}
    /\ UNCHANGED <<currentView, currentMapId, mapExists, camera, userPins,
                   pinsShared, userCounty, userBasemap, defaultPins,
                   mapMarkers, nextPinId, clickHandlers, dragging,
                   styleLoaded, source, layer, toggleChecked, selectedUI, basemapRadio,
                   countyCalls, switches, store, pristine>>

\* showEditorView after the animation frame, new map
RafNew(t) ==
    /\ t \in tasks /\ t.kind = "raf" /\ t.id = Null
    /\ InitializeMap(DefaultState, TRUE)
    /\ tasks' = Orphaned(tasks \ {t}) \cup {Task("loadNew", Null, DefaultState)}
    /\ lastOp' = "none"
    /\ UNCHANGED <<comp, fetch, ui, nav>>
    /\ save' = [NamedAs(save, NewMapName) EXCEPT
                    !.baseline = Relevant(defaultPins,
                                          DefaultState.countyBoundaries)]
    /\ UNCHANGED <<currentView, currentMapId, defaultPins, nextPinId,
                   toggleChecked, selectedUI, basemapRadio, store>>

\* loadExistingMap after getMapById resolved
GetResolved(t) ==
    /\ t \in tasks /\ t.kind = "get"
    /\ t.id \in DOMAIN store
    /\ InitializeMap(store[t.id], FALSE)
    /\ tasks' = Orphaned(tasks \ {t})
                    \cup {Task("loadExisting", t.id, store[t.id])}
    /\ lastOp' = "none"
    /\ UNCHANGED <<comp, fetch, ui, nav>>
    /\ save' = [NamedAs(save, TemplateName(t.id)) EXCEPT
                    !.baseline = Relevant(store[t.id].pins,
                                          store[t.id].countyBoundaries)]
    /\ UNCHANGED <<currentView, currentMapId, defaultPins, nextPinId,
                   toggleChecked, selectedUI, basemapRadio, store>>

\* loadExistingMap's catch: getMapById rejected, the error dialog opens
GetFailed(t) ==
    /\ t \in tasks /\ t.kind = "get"
    /\ tasks' = (tasks \ {t}) \cup {Task("errorDialog", t.id, DefaultState)}
    /\ lastOp' = "loadFailed"
    /\ ui' = LoadingHidden(ui)
    /\ UNCHANGED <<comp, fetch, save, nav>>
    /\ resolved' = {}
    /\ UNCHANGED <<currentView, currentMapId, mapExists, camera, userPins,
                   pinsShared, userCounty, userBasemap, defaultPins,
                   mapMarkers, nextPinId, clickHandlers, dragging,
                   styleLoaded, source, layer, toggleChecked, selectedUI, basemapRadio,
                   countyCalls, switches, store, pristine>>

\* showListView up to await loadMapsList
ShowListView(rest, hash) ==
    /\ currentView' = "list"
    /\ currentMapId' = Null
    /\ nav' = Navigated(nav, hash)
    /\ save' = ListShown(save)
    /\ pristine' = FALSE
    /\ resolved' = {}
    /\ IF mapExists
       THEN /\ mapExists' = FALSE
            /\ camera' = DefaultCamera
            /\ userPins' = <<>>
            /\ pinsShared' = FALSE
            /\ userCounty' = DefaultCounty
            /\ userBasemap' = "street"
            /\ clickHandlers' = 0
            /\ styleLoaded' = FALSE
            /\ source' = NoSource
            /\ layer' = NoLayer
            /\ mapMarkers' = Detach(mapMarkers)
            /\ dragging' = 0
            /\ countyCalls' = StaleCalls(countyCalls)
            /\ switches' = <<>>
            /\ tasks' = WithoutLiveLoads(rest)
       ELSE /\ tasks' = rest
            /\ UNCHANGED <<mapExists, camera, userPins, pinsShared, userCounty,
                           userBasemap, clickHandlers, styleLoaded, source,
                           layer, mapMarkers, dragging, countyCalls, switches>>
    /\ UNCHANGED <<defaultPins, nextPinId, toggleChecked, selectedUI,
                   basemapRadio, store>>

\* the error dialog of a failed load is closed: showListView
ErrorDialogClosed(t) ==
    /\ t \in tasks /\ t.kind = "errorDialog"
    /\ lastOp' = "errorDismissed"
    /\ UNCHANGED <<comp, fetch, ui>>
    /\ ShowListView(tasks \ {t}, UpdateUrl(Null))

\* handleBackToList: the discard-changes prompt is shown when a map is open
\* and its relevant state is not the one recorded as saved
BackNotice(hasMap, relevant, lastSaved) ==
    IF hasMap /\ relevant # lastSaved THEN "discardPrompt" ELSE "backDirect"

\* the Back button, and the confirmation of the prompt when it is shown
HandleBackToList ==
    /\ currentView = "editor"
    /\ lastOp' = BackNotice(mapExists, GetRelevantMapState, save.lastSaved)
    /\ UNCHANGED <<comp, fetch, ui>>
    /\ ShowListView(tasks, UpdateUrl(Null))

\* a popstate event (back, forward, or an edited hash): handleUrlChange with
\* the hash the browser has moved to
HandleUrlChange(hash) ==
    /\ hash \in Fragments
    /\ Cardinality(tasks) < MaxTasks
    /\ lastOp' = "popstate"
    /\ UNCHANGED <<comp, fetch, ui>>
    /\ LET urlMapId == GetMapIdFromUrl(hash)
       IN IF IsTruthyId(urlMapId) /\ urlMapId # currentMapId
          THEN ShowEditorView(urlMapId, hash)
          ELSE IF ~IsTruthyId(urlMapId) /\ currentView = "editor"
          THEN ShowListView(tasks, hash)
          ELSE /\ nav' = Navigated(nav, hash)
               /\ UNCHANGED <<currentView, currentMapId, mapExists, camera,
                              userPins, pinsShared, userCounty, userBasemap,
                              defaultPins, mapMarkers, nextPinId,
                              clickHandlers, dragging, styleLoaded, source,
                              layer, toggleChecked, selectedUI, basemapRadio,
                              countyCalls, switches, tasks, store, pristine,
                              save>>
               /\ resolved' = {}

\* ------------------------------------------------------- county overlay
\* the county files served under data/counties/: Hall.geojson is a
\* FeatureCollection of two features, Banks.geojson one of a single feature,
\* White.geojson a single Feature
CountyFile(name) ==
    IF name = "Hall"
    THEN [type |-> "FeatureCollection", features |-> <<"Hall-1", "Hall-2">>,
          self |-> "none"]
    ELSE IF name = "Banks"
    THEN [type |-> "FeatureCollection", features |-> <<"Banks-1">>,
          self |-> "none"]
    ELSE [type |-> "Feature", features |-> <<>>, self |-> "White-1"]

\* the per-name fetch outcomes ("ok", "httpError", "thrown") the overlay
\* actions draw from
FetchOutcomes ==
    { [n \in Counties |-> "ok"],
      [n \in Counties |-> IF n = "Hall" THEN "httpError" ELSE "thrown"] }

\* a mutation of fetchGeorgiaCounties: a single Feature file is skipped
CollectionsOnly(name, result) ==
    IF result # "ok" THEN <<>>
    ELSE IF CountyFile(name).type = "FeatureCollection"
         THEN CountyFile(name).features
         ELSE <<>>

\* fetchGeorgiaCounties: one iteration of the for loop
FeaturesOf(name, result) ==
    IF result # "ok" THEN <<>>
    ELSE IF CountyFile(name).type = "FeatureCollection"
         THEN CountyFile(name).features
         ELSE <<CountyFile(name).self>>

RECURSIVE MergeFeatures(_, _)
MergeFeatures(names, oc) ==
    IF names = <<>> THEN <<>>
    ELSE FeaturesOf(Head(names), oc[Head(names)]) \o MergeFeatures(Tail(names), oc)

\* fetchGeorgiaCounties
FetchGeorgiaCounties(names, oc) ==
    [type |-> "FeatureCollection", features |-> MergeFeatures(names, oc)]

\* the argument lists of a fetchGeorgiaCounties call
RequestLists == UNION {[1..n -> FetchCounties] : n \in 0..MaxRequest}

\* the calls of fetchGeorgiaCounties: a list of names and the outcome of the
\* fetch of each county file
FetchRequests ==
    {[names |-> ns, outcomes |-> oc, done |-> FALSE,
      result |-> [type |-> "none", features |-> <<>>]] :
        ns \in RequestLists, oc \in [FetchCounties -> FetchResults]}

InitFetch == InitCore(PinStore) /\ fetch \in FetchRequests

\* fetchGeorgiaCounties runs to its return
FetchReturns ==
    /\ ~fetch.done
    /\ fetch' = [fetch EXCEPT
                   !.done = TRUE,
                   !.result = FetchGeorgiaCounties(fetch.names, fetch.outcomes)]
    /\ UNCHANGED <<mainVars, comp, ui, save, nav>>

\* updateCountyBoundaries: border colour by basemap
BorderColor(basemap) == IF basemap = "satellite" THEN "#ffffff" ELSE "#000000"

\* updateCountyBoundaries: "Add new layers if enabled and counties selected"
ShouldFetch(enabled, sel) == enabled /\ Len(sel) > 0

\* a mutation of switchBasemap: the idle listener restores unconditionally
RestoreAlways(county) == TRUE

\* switchBasemap, idle listener: "Restore county boundaries if they were enabled"
ShouldRestoreOverlay(county) == county.enabled /\ Len(county.selectedCounties) > 0

Call(enabled, sel, cont, sw) ==
    [enabled |-> enabled, sel |-> sel, cont |-> cont, sw |-> sw, stale |-> FALSE]

\* suspended calls plus the calls the pending switches may still make
PendingLoad ==
    Len(countyCalls) + Cardinality({i \in 1..Len(switches) : switches[i].phase # "fetch"})

\* another overlay update or style change overlaps the fetch of a switch
Disturbed(sw) ==
    [i \in 1..Len(sw) |->
        IF sw[i].phase = "fetch" THEN [sw[i] EXCEPT !.clean = FALSE] ELSE sw[i]]

\* history: the overlay state a user handler asked for while the calls of sw
\* were pending
UserChanged(sw, enabled, sel) ==
    [i \in 1..Len(sw) |->
        [sw[i] EXCEPT !.userChange =
            [made |-> TRUE,
             county |-> [enabled |-> enabled, selectedCounties |-> sel]]]]

\* updateCountyBoundaries up to its await, called by a user handler or by the
\* load handler
UpdateCountyBoundaries(enabled, sel, cont) ==
    /\ userCounty' = [enabled |-> enabled, selectedCounties |-> sel]
    /\ layer' = NoLayer
    /\ source' = NoSource
    /\ countyCalls' =
          IF ShouldFetch(enabled, sel)
          THEN Append(countyCalls, Call(enabled, sel, cont, 0))
          ELSE countyCalls
    /\ switches' = IF cont = "user"
                   THEN UserChanged(Disturbed(switches), enabled, sel)
                   ELSE Disturbed(switches)

\* the toggle-counties switch is flipped
HandleCountyToggle ==
    /\ currentView = "editor"
    /\ PendingLoad < MaxCalls
    /\ toggleChecked' = ~toggleChecked
    /\ lastOp' = "none"
    /\ UNCHANGED <<comp, fetch, ui, save, nav>>
    /\ pristine' = FALSE
    /\ resolved' = {}
    /\ IF mapExists
       THEN UpdateCountyBoundaries(~toggleChecked, SelectedList(selectedUI), "user")
       ELSE UNCHANGED <<userCounty, layer, source, countyCalls, switches>>
    /\ UNCHANGED <<currentView, currentMapId, mapExists, camera, userPins,
                   pinsShared, userBasemap, defaultPins, mapMarkers, nextPinId,
                   clickHandlers, dragging, styleLoaded, selectedUI,
                   basemapRadio, tasks, store>>

\* the selection of the county multiselect is changed (it is shown only
\* while the toggle is on)
HandleCountySelection(sel) ==
    /\ currentView = "editor"
    /\ toggleChecked
    /\ PendingLoad < MaxCalls
    /\ sel # selectedUI
    /\ selectedUI' = sel
    /\ lastOp' = "none"
    /\ UNCHANGED <<comp, fetch, ui, save, nav>>
    /\ pristine' = FALSE
    /\ resolved' = {}
    /\ IF mapExists /\ toggleChecked
       THEN UpdateCountyBoundaries(toggleChecked, SelectedList(sel), "user")
       ELSE UNCHANGED <<userCounty, layer, source, countyCalls, switches>>
    /\ UNCHANGED <<currentView, currentMapId, mapExists, camera, userPins,
                   pinsShared, userBasemap, defaultPins, mapMarkers, nextPinId,
                   clickHandlers, dragging, styleLoaded, toggleChecked,
                   basemapRadio, tasks, store>>

\* the switch a suspended call belongs to leaves the list when it resolves
SwitchOfCall(c) == {i \in 1..Len(switches) : switches[i].tag = c.sw}

WithoutSwitch(sw, tag) == SelectSeq(sw, LAMBDA x : x.tag # tag)

\* updateCountyBoundaries after await fetchGeorgiaCounties, and the
\* continuation of its caller
CountyFetchDone(k, oc) ==
    /\ k \in 1..Len(countyCalls)
    /\ LET c == countyCalls[k]
           geojson == FetchGeorgiaCounties(c.sel, oc)
           canAdd == ~c.stale /\ mapExists /\ styleLoaded
       IN /\ source' = IF canAdd /\ ~source.present
                       THEN [present |-> TRUE, features |-> geojson.features,
                             names |-> c.sel]
                       ELSE source
          /\ layer' = IF canAdd /\ ~layer.present
                      THEN [present |-> TRUE, color |-> BorderColor(userBasemap)]
                      ELSE layer
          /\ countyCalls' = RemoveAt(countyCalls, k)
          /\ IF c.cont = "switch"
             THEN /\ resolved' = {switches[i] : i \in SwitchOfCall(c)}
                  /\ switches' = WithoutSwitch(switches, c.sw)
             ELSE /\ resolved' = {}
                  /\ switches' = switches
          /\ IF c.cont = "load" /\ mapExists
             THEN /\ toggleChecked' = SetupToggle(userCounty)
                  /\ selectedUI' = SetupSelected(userCounty)
                  /\ basemapRadio' = userBasemap
             ELSE UNCHANGED <<toggleChecked, selectedUI, basemapRadio>>
    /\ lastOp' = "none"
    /\ UNCHANGED <<comp, fetch, nav>>
    /\ save' = IF countyCalls[k].cont = "load"
               THEN LoadRecorded(save, GetRelevantMapState)
               ELSE save
    /\ ui' = IF countyCalls[k].cont = "load" THEN LoadingHidden(ui) ELSE ui
    /\ UNCHANGED <<currentView, currentMapId, mapExists, camera, userPins,
                   pinsShared, userCounty, userBasemap, defaultPins,
                   mapMarkers, nextPinId, clickHandlers, dragging,
                   styleLoaded, tasks, store, pristine>>

\* ---------------------------------------------------------- basemap switch
\* switchBasemap: the camera read before the style change
SnapshotCamera(cam) ==
    [center |-> cam.center, zoom |-> cam.zoom, bearing |-> cam.bearing,
     pitch |-> cam.pitch]

\* switchBasemap: the deep copy of the county overlay state
SnapshotCounty(county) ==
    [enabled |-> county.enabled, selectedCounties |-> county.selectedCounties]

\* a mutation of switchBasemap: jumpTo without the snapshotted bearing
JumpToNorthUp(snap) ==
    MapCamera([center |-> snap.center, zoom |-> snap.zoom,
               bearing |-> 0, pitch |-> snap.pitch])

\* switchBasemap, style.load listener: map.jumpTo of the snapshot
JumpTo(snap) ==
    MapCamera([center |-> snap.center, zoom |-> snap.zoom,
               bearing |-> snap.bearing, pitch |-> snap.pitch])

FreeTag == CHOOSE t \in 1..(Len(switches) + 1) :
              \A i \in 1..Len(switches) : switches[i].tag # t

\* a marker is a DOM element anchored to the map's container, not part of the
\* style: a marker that belonged to the style would go with it
StyleScopedMarkers(markers) == <<>>

\* map.setStyle replaces sources and layers and keeps the markers
MarkersAfterSetStyle(markers) == markers

\* history: another switchBasemap call, for the basemap type, is made while
\* the calls of sw are pending
Overlapped(sw, type) ==
    [i \in 1..Len(sw) |->
        [sw[i] EXCEPT !.latestType = type, !.overlapped = TRUE]]

\* switchBasemap up to the registration of its style.load listener
SwitchBasemap(type) ==
    /\ type \in Basemaps
    /\ mapMarkers' = MarkersAfterSetStyle(mapMarkers)
    /\ userBasemap' = type
    /\ userCounty' = SnapshotCounty(userCounty)
    /\ styleLoaded' = FALSE
    /\ source' = NoSource
    /\ layer' = NoLayer
    /\ switches' =
          Append(Overlapped(Disturbed(switches), type),
                 [tag |-> FreeTag, basemap |-> type,
                  latestType |-> type, overlapped |-> switches # <<>>,
                  cam |-> SnapshotCamera(camera),
                  county |-> SnapshotCounty(userCounty),
                  phase |-> "style", moved |-> FALSE, called |-> FALSE,
                  clean |-> TRUE,
                  userChange |-> [made |-> FALSE,
                                  county |-> SnapshotCounty(userCounty)]])

\* handleBasemapChange for the radio button of the basemap type
BasemapChosen(type) ==
    /\ currentView = "editor"
    /\ type \in Basemaps \ {basemapRadio}
    /\ PendingLoad < MaxCalls
    /\ basemapRadio' = type
    /\ lastOp' = "none"
    /\ UNCHANGED <<comp, fetch, ui, save, nav>>
    /\ pristine' = FALSE
    /\ resolved' = {}
    /\ IF mapExists
       THEN SwitchBasemap(type)
       ELSE UNCHANGED <<userBasemap, userCounty, styleLoaded, source, layer,
                        switches, mapMarkers>>
    /\ UNCHANGED <<currentView, currentMapId, mapExists, camera, userPins,
                   pinsShared, defaultPins, nextPinId,
                   clickHandlers, dragging, toggleChecked, selectedUI,
                   countyCalls, tasks, store>>

\* a basemap radio button is chosen
HandleBasemapChange(type) ==
    /\ Len(switches) < MaxSwitches
    /\ BasemapChosen(type)

\* a basemap radio button is chosen while MaxSwitches earlier switches are
\* still pending
HandleBasemapChangeOverlapping(type) ==
    /\ Len(switches) >= MaxSwitches
    /\ Len(switches) < MaxSwitches + MaxOverlap
    /\ BasemapChosen(type)

\* a mutation of onStyleLoaded: the overlay is restored on 'style.load',
\* without waiting for 'idle'
RestoreOnStyleLoad(sw, cam) ==
    [sw EXCEPT !.phase = "fetch", !.moved = (cam # JumpTo(sw.cam))]

\* a mutation of onStyleLoaded: the 'idle' listener is not registered
IdleListenerMissing(sw, cam) ==
    [sw EXCEPT !.phase = "done", !.moved = (cam # JumpTo(sw.cam))]

\* onStyleLoaded of the call sw, the camera left at cam by the listeners of
\* the signal: the call now waits for 'idle'
OnStyleLoaded(sw, cam) ==
    [sw EXCEPT !.phase = "idle", !.moved = (cam # JumpTo(sw.cam))]

\* a mutation of the 'style.load' dispatch: the listener registered first
\* runs last
FirstStyleWaiter ==
    CHOOSE i \in 1..Len(switches) :
        /\ switches[i].phase = "style"
        /\ \A j \in 1..(i - 1) : switches[j].phase # "style"

LastStyleWaiter ==
    CHOOSE i \in 1..Len(switches) :
        /\ switches[i].phase = "style"
        /\ \A j \in (i + 1)..Len(switches) : switches[j].phase # "style"

\* the 'style.load' signal: every onStyleLoaded listener runs, in the order
\* of registration, and registers its 'idle' listener
StyleLoadFired ==
    /\ mapExists
    /\ \E i \in 1..Len(switches) : switches[i].phase = "style"
    /\ LET last == switches[LastStyleWaiter]
           cam == JumpTo(last.cam)
       IN /\ camera' = cam
          /\ userBasemap' = last.basemap
          /\ userCounty' = last.county
          /\ switches' =
                [i \in 1..Len(switches) |->
                    IF switches[i].phase = "style"
                    THEN OnStyleLoaded(switches[i], cam)
                    ELSE [switches[i] EXCEPT !.moved = @ \/ (cam # camera)]]
    /\ styleLoaded' = TRUE
    /\ lastOp' = "none"
    /\ UNCHANGED <<comp, fetch, ui, save, nav>>
    /\ resolved' = {}
    /\ UNCHANGED <<currentView, currentMapId, mapExists, userPins, pinsShared,
                   defaultPins, mapMarkers, nextPinId, clickHandlers,
                   dragging, source, layer, toggleChecked, selectedUI,
                   basemapRadio, countyCalls, tasks, store,
                   pristine>>

RECURSIVE IdleListeners(_, _, _)
\* the 'idle' listeners of the switches sw[i..], run in order on the overlay
\* state ov: each restores the overlay of its snapshot or resolves at once
IdleListeners(ov, sw, i) ==
    IF i > Len(sw) THEN ov
    ELSE
      LET s == sw[i]
          c == s.county
      IN IF s.phase # "idle"
         THEN IdleListeners([ov EXCEPT !.switches = Append(@, s)], sw, i + 1)
         ELSE IF ~ShouldRestoreOverlay(c)
         THEN IdleListeners([ov EXCEPT !.resolved = @ \cup {s}], sw, i + 1)
         ELSE IF ~ShouldFetch(c.enabled, c.selectedCounties)
         THEN IdleListeners(
                [ov EXCEPT !.county = SnapshotCounty(c),
                           !.source = NoSource, !.layer = NoLayer,
                           !.switches = Disturbed(@),
                           !.resolved = @ \cup {[s EXCEPT !.called = TRUE]}],
                sw, i + 1)
         ELSE IdleListeners(
                [ov EXCEPT !.county = SnapshotCounty(c),
                           !.source = NoSource, !.layer = NoLayer,
                           !.calls = Append(@, Call(c.enabled, c.selectedCounties,
                                                    "switch", s.tag)),
                           !.switches =
                               Append(Disturbed(@),
                                      [s EXCEPT !.phase = "fetch",
                                                !.called = TRUE,
                                                !.clean = (ov.calls = <<>>)])],
                sw, i + 1)

\* the 'idle' signal after a style change
IdleFired ==
    /\ mapExists
    /\ styleLoaded
    /\ \E i \in 1..Len(switches) : switches[i].phase = "idle"
    /\ LET ov == IdleListeners(
                    [county |-> userCounty, source |-> source, layer |-> layer,
                     calls |-> countyCalls, switches |-> <<>>, resolved |-> {}],
                    switches, 1)
       IN /\ userCounty' = ov.county
          /\ source' = ov.source
          /\ layer' = ov.layer
          /\ countyCalls' = ov.calls
          /\ switches' = ov.switches
          /\ resolved' = ov.resolved
    /\ lastOp' = "none"
    /\ UNCHANGED <<comp, fetch, ui, save, nav>>
    /\ UNCHANGED <<currentView, currentMapId, mapExists, camera, userPins,
                   pinsShared, userBasemap, defaultPins, mapMarkers,
                   nextPinId, clickHandlers, dragging, styleLoaded,
                   toggleChecked, selectedUI, basemapRadio, tasks, store, pristine>>

\* the user pans, zooms or rotates the map
MoveCamera(c) ==
    /\ currentView = "editor"
    /\ mapExists
    /\ c \in Cameras \ {camera}
    /\ camera' = MapCamera(c)
    /\ switches' =
          [i \in 1..Len(switches) |->
              IF switches[i].phase # "style"
              THEN [switches[i] EXCEPT !.moved = TRUE]
              ELSE switches[i]]
    /\ lastOp' = "none"
    /\ UNCHANGED <<comp, fetch, ui, save, nav>>
    /\ pristine' = FALSE
    /\ resolved' = {}
    /\ UNCHANGED <<currentView, currentMapId, mapExists, userPins, pinsShared,
                   userCounty, userBasemap, defaultPins, mapMarkers,
                   nextPinId, clickHandlers, dragging, styleLoaded, source,
                   layer, toggleChecked, selectedUI, basemapRadio,
                   countyCalls, tasks, store>>

\* ----------------------------------------------------------- load handlers
\* a 'load' event cannot precede the 'style.load' of a style change that
\* was requested before the first style finished loading
NoStyleWaiter == \A i \in 1..Len(switches) : switches[i].phase # "style"

\* the 'load' listener of showEditorView (new map)
MapLoadNew(t) ==
    /\ t \in tasks /\ t.kind = "loadNew"
    /\ NoStyleWaiter
    /\ tasks' = tasks \ {t}
    /\ lastOp' = "none"
    /\ UNCHANGED <<comp, fetch, ui, save, nav>>
    /\ resolved' = {}
    /\ styleLoaded' = (styleLoaded \/ (mapExists /\ ~t.stale))
    /\ IF mapExists
       THEN /\ clickHandlers' = clickHandlers + 1
            /\ toggleChecked' = SetupToggle(userCounty)
            /\ selectedUI' = SetupSelected(userCounty)
            /\ basemapRadio' = userBasemap
       ELSE UNCHANGED <<clickHandlers, toggleChecked, selectedUI, basemapRadio>>
    /\ UNCHANGED <<currentView, currentMapId, mapExists, camera, userPins,
                   pinsShared, userCounty, userBasemap, defaultPins,
                   mapMarkers, nextPinId, dragging, source, layer,
                   countyCalls, switches, store, pristine>>

\* restorePins
RestorePins(pins) ==
    /\ mapMarkers' = ClearedMarkers \o RestoredMarkers(pins)
    /\ nextPinId' = RestoredNextId(nextPinId, pins)
    /\ userPins' = pins
    /\ pinsShared' = FALSE
    /\ dragging' = 0
    /\ UNCHANGED defaultPins

\* loadExistingMap: "Restore pins from saved state"
HasSavedPins(state) == Len(state.pins) > 0

\* the 'load' listener of loadExistingMap, up to await restoreCountyBoundaries
\* and, when that call does not suspend, to its end
MapLoadExisting(t) ==
    /\ t \in tasks /\ t.kind = "loadExisting"
    /\ NoStyleWaiter
    /\ PendingLoad < MaxCalls
    /\ tasks' = tasks \ {t}
    /\ lastOp' = "none"
    /\ UNCHANGED <<comp, fetch, nav>>
    /\ ui' = IF mapExists /\ ~ShouldFetch(t.data.countyBoundaries.enabled,
                                          t.data.countyBoundaries.selectedCounties)
             THEN LoadingHidden(ui)
             ELSE ui
    /\ resolved' = {}
    /\ styleLoaded' = (styleLoaded \/ (mapExists /\ ~t.stale))
    /\ IF mapExists
       THEN /\ clickHandlers' = clickHandlers + 1
            /\ IF HasSavedPins(t.data)
               THEN RestorePins(t.data.pins)
               ELSE UNCHANGED pinVars
            /\ UpdateCountyBoundaries(t.data.countyBoundaries.enabled,
                                      t.data.countyBoundaries.selectedCounties,
                                      "load")
            /\ IF ShouldFetch(t.data.countyBoundaries.enabled,
                              t.data.countyBoundaries.selectedCounties)
               THEN UNCHANGED <<toggleChecked, selectedUI, basemapRadio>>
               ELSE /\ toggleChecked' = SetupToggle(userCounty')
                    /\ selectedUI' = SetupSelected(userCounty')
                    /\ basemapRadio' = userBasemap
       ELSE UNCHANGED <<clickHandlers, userPins, pinsShared, defaultPins,
                        mapMarkers, nextPinId, dragging, userCounty, layer,
                        source, countyCalls, switches, toggleChecked,
                        selectedUI, basemapRadio>>
    /\ UNCHANGED <<currentView, currentMapId, mapExists, camera, userBasemap,
                   store, pristine>>
    /\ save' = IF mapExists /\ ~ShouldFetch(t.data.countyBoundaries.enabled,
                                            t.data.countyBoundaries.selectedCounties)
               THEN LoadRecorded(save, Relevant(userPins', userCounty'))
               ELSE save

\* ------------------------------------------------------------- pin handlers
\* enablePinPlacement: the marker hit test of the click listener; markers are
\* DOM elements, and no style of BASEMAP_CONFIGS has a layer named marker-*
ClickedMarker(styleLayers) == \E l \in styleLayers : l = "marker-"

StyleLayerIds == {"carto-light-layer", "google-satellite-layer"}

\* addPin on the pin state ps
AddPin(ps, lngLat) ==
    LET pinData == NewPinData(ps.pins, ps.next, lngLat)
    IN [pins |-> Append(ps.pins, pinData),
        dpins |-> IF ps.shared THEN Append(ps.dpins, pinData) ELSE ps.dpins,
        shared |-> ps.shared,
        markers |-> Append(ps.markers, NewMarker(pinData, lngLat)),
        next |-> AdvancePinId(ps.next)]

RECURSIVE AddPinTimes(_, _, _)
AddPinTimes(ps, lngLat, n) ==
    IF n = 0 THEN ps ELSE AddPinTimes(AddPin(ps, lngLat), lngLat, n - 1)

\* a click on the map outside every marker: each registered click listener
\* runs addPin
MapClick(lngLat) ==
    /\ currentView = "editor"
    /\ mapExists
    /\ clickHandlers > 0
    /\ dragging = 0
    /\ nextPinId + clickHandlers - 1 <= MaxPinId
    /\ ~ClickedMarker(StyleLayerIds)
    /\ LET ps == AddPinTimes(
                    [pins |-> userPins, dpins |-> defaultPins,
                     shared |-> pinsShared, markers |-> mapMarkers,
                     next |-> nextPinId], lngLat, clickHandlers)
       IN /\ userPins' = ps.pins
          /\ defaultPins' = ps.dpins
          /\ mapMarkers' = ps.markers
          /\ nextPinId' = ps.next
    /\ lastOp' = "addPin"
    /\ UNCHANGED <<comp, fetch, ui, save, nav>>
    /\ pristine' = FALSE
    /\ resolved' = {}
    /\ UNCHANGED <<currentView, currentMapId, mapExists, camera, pinsShared,
                   userCounty, userBasemap, clickHandlers, dragging,
                   styleLoaded, source, layer, toggleChecked, selectedUI,
                   basemapRadio, countyCalls, switches, tasks, store>>

Interactive(i) ==
    /\ currentView = "editor"
    /\ mapExists
    /\ i \in 1..Len(mapMarkers)
    /\ mapMarkers[i].attached

otherThanPins ==
    <<currentView, currentMapId, mapExists, camera, userCounty, userBasemap,
      clickHandlers, styleLoaded, source, layer, toggleChecked, selectedUI,
      basemapRadio, countyCalls, switches, tasks, store>>

\* the 'dragstart' listener on the marker m
DragStarted(m) == [m EXCEPT !.isDragging = TRUE]

\* 'dragstart' of marker i, no grace timer of an earlier drag pending beyond
\* MaxTimers
BeginDrag(i) ==
    /\ Interactive(i)
    /\ dragging = 0
    /\ mapMarkers' = [mapMarkers EXCEPT ![i] = DragStarted(@)]
    /\ dragging' = i
    /\ lastOp' = "dragStart"
    /\ UNCHANGED <<comp, fetch, ui, save, nav>>
    /\ pristine' = FALSE
    /\ resolved' = {}
    /\ UNCHANGED <<userPins, pinsShared, defaultPins, nextPinId>>
    /\ UNCHANGED otherThanPins

\* 'dragstart' of marker i
DragStart(i) ==
    /\ i \in 1..Len(mapMarkers)
    /\ mapMarkers[i].timers < MaxTimers
    /\ BeginDrag(i)

\* 'dragstart' of marker i within the grace delay of its previous drag
DragStartEarly(i) ==
    /\ i \in 1..Len(mapMarkers)
    /\ mapMarkers[i].timers >= MaxTimers
    /\ mapMarkers[i].timers < MaxTimers + MaxEarlyDrags
    /\ BeginDrag(i)

\* the click listener of marker i's element: showPinMenu unless the marker is
\* flagged as being dragged; the menu is dismissed without a choice
MarkerClick(i) ==
    /\ Interactive(i)
    /\ dragging = 0
    /\ lastOp' = IF mapMarkers[i].isDragging THEN "clickSuppressed"
                 ELSE "menuOpened"
    /\ resolved' = {}
    /\ UNCHANGED <<comp, fetch, ui, save, nav>>
    /\ UNCHANGED <<userPins, pinsShared, defaultPins, nextPinId, mapMarkers,
                   dragging, pristine>>
    /\ UNCHANGED otherThanPins

\* dragend listener: the marker after the position is committed and the
\* grace timer is started
DragEndMarker(m, lngLat) ==
    [m EXCEPT !.pos = lngLat,
              !.pinData.lngLat = ToArray(lngLat),
              !.timers = @ + 1]

\* 'dragend' of the dragged marker, released at lngLat
DragEnd(lngLat) ==
    /\ dragging # 0
    /\ Interactive(dragging)
    /\ LET m == DragEndMarker(mapMarkers[dragging], lngLat)
           ms == [mapMarkers EXCEPT ![dragging] = m]
       IN /\ mapMarkers' = ms
          /\ defaultPins' = TouchShared(defaultPins, m)
          /\ userPins' = UpdateMapPins(ms)
    /\ pinsShared' = FALSE
    /\ dragging' = 0
    /\ lastOp' = "dragEnd"
    /\ UNCHANGED <<comp, fetch, ui, save, nav>>
    /\ pristine' = FALSE
    /\ resolved' = {}
    /\ UNCHANGED nextPinId
    /\ UNCHANGED otherThanPins

\* the grace timer of a dragend fires
GraceTimerFired(i) ==
    /\ i \in 1..Len(mapMarkers)
    /\ mapMarkers[i].timers > 0
    /\ mapMarkers' = [mapMarkers EXCEPT ![i].isDragging = FALSE,
                                        ![i].timers = @ - 1]
    /\ lastOp' = "graceTimer"
    /\ UNCHANGED <<comp, fetch, ui, save, nav>>
    /\ resolved' = {}
    /\ UNCHANGED <<userPins, pinsShared, defaultPins, nextPinId, dragging,
                   pristine>>
    /\ UNCHANGED otherThanPins

\* the values typed into the Renumber prompt
RenumberInputs ==
    { [kind |-> "empty", n |-> 0], [kind |-> "text", n |-> 0],
      [kind |-> "int", n |-> 2], [kind |-> "int", n |-> 0],
      [kind |-> "int", n |-> -1] }

\* showPinMenu: inputValidator rejects (!value || isNaN(value))
InputRejected(v) == v.kind = "empty" \/ v.kind = "text"

\* showPinMenu: if (newNumber), on the string the prompt returns
InputTruthy(v) == v.kind # "empty"

\* showPinMenu: parseInt(newNumber, 10)
ParseInt(v) == v.n

\* showPinMenu, Renumber branch: the marker after the new number is applied
Renumbered(m, v) ==
    IF ~InputRejected(v) /\ InputTruthy(v)
    THEN [m EXCEPT !.pinData.number = ParseInt(v), !.label = ParseInt(v)]
    ELSE m

\* a click on marker i, Renumber chosen and a value confirmed
RenumberPin(i, v) ==
    /\ Interactive(i)
    /\ dragging = 0
    /\ ~mapMarkers[i].isDragging
    /\ v \in RenumberInputs
    /\ IF ~InputRejected(v) /\ InputTruthy(v)
       THEN LET m == Renumbered(mapMarkers[i], v)
                ms == [mapMarkers EXCEPT ![i] = m]
            IN /\ mapMarkers' = ms
               /\ defaultPins' = TouchShared(defaultPins, m)
               /\ userPins' = UpdateMapPins(ms)
               /\ pinsShared' = FALSE
       ELSE UNCHANGED <<mapMarkers, defaultPins, userPins, pinsShared>>
    /\ lastOp' = "renumber"
    /\ UNCHANGED <<comp, fetch, ui, save, nav>>
    /\ pristine' = FALSE
    /\ resolved' = {}
    /\ UNCHANGED <<nextPinId, dragging>>
    /\ UNCHANGED otherThanPins

\* a click on marker i, Delete chosen and confirmed: deletePin
DeletePin(i) ==
    /\ Interactive(i)
    /\ dragging = 0
    /\ ~mapMarkers[i].isDragging
    /\ mapMarkers' = SpliceMarker(mapMarkers, i)
    /\ userPins' = SplicePin(userPins, mapMarkers[i].pinData.id)
    /\ defaultPins' = IF pinsShared
                      THEN SplicePin(defaultPins, mapMarkers[i].pinData.id)
                      ELSE defaultPins
    /\ lastOp' = "deletePin"
    /\ UNCHANGED <<comp, fetch, ui, save, nav>>
    /\ pristine' = FALSE
    /\ resolved' = {}
    /\ UNCHANGED <<pinsShared, nextPinId, dragging>>
    /\ UNCHANGED otherThanPins

\* ------------------------------------------------- comp-type draft: pins
\* a mutation of loadExistingMap: an empty bucket counts as an absent one
HasFilledBuckets(state) ==
    \/ (Truthy(state.salePins) /\ state.salePins.val # <<>>)
    \/ (Truthy(state.rentPins) /\ state.rentPins.val # <<>>)
    \/ (Truthy(state.landPins) /\ state.landPins.val # <<>>)

\* loadExistingMap: map_state.salePins || map_state.rentPins || map_state.landPins
HasBuckets(state) ==
    Truthy(state.salePins) \/ Truthy(state.rentPins) \/ Truthy(state.landPins)

\* loadExistingMap: map_state.pins && map_state.pins.length > 0
HasLegacyPins(state) == Truthy(state.pins) /\ Len(state.pins.val) > 0

\* a mutation of the legacy conversion: the flat list goes to the rent bucket
LegacyAsRent(state) ==
    [salePins |-> <<>>, rentPins |-> state.pins.val, landPins |-> <<>>]

\* loadExistingMap: { salePins: map_state.pins, rentPins: [], landPins: [] }
LegacyAsBuckets(state) ==
    [salePins |-> state.pins.val, rentPins |-> <<>>, landPins |-> <<>>]

\* a bucket restorePins is handed: an absent bucket restores no pin
BucketOrEmpty(f) == IF f.defined THEN f.val ELSE <<>>

\* loadExistingMap: the argument of the restorePins call, Undefined when
\* neither branch calls it
RestoreArgument(state) ==
    IF HasBuckets(state)
    THEN Field([salePins |-> BucketOrEmpty(state.salePins),
                rentPins |-> BucketOrEmpty(state.rentPins),
                landPins |-> BucketOrEmpty(state.landPins)])
    ELSE IF HasLegacyPins(state)
    THEN Field(LegacyAsBuckets(state))
    ELSE Undefined

\* loadExistingMap: map_state.currentCompType || 'sales'
SavedCompType(state) ==
    IF Truthy(state.currentCompType) THEN state.currentCompType.val ELSE "sales"

\* initializeMap of the comp-type draft: the buckets of a map before any
\* restore, the radio group and the id counter untouched
OpenedCompMap(c, state) ==
    [c EXCEPT !.open = TRUE, !.salePins = <<>>, !.rentPins = <<>>,
              !.landPins = <<>>, !.currentCompType = "sales",
              !.markers = <<>>,
              !.from = state, !.fresh = TRUE, !.added = "none"]

\* the marker rendered for a pin, shown when it is created
CompMarker(pinData) == [id |-> pinData.id, visible |-> TRUE]

\* the markers rendered for a sequence of pins, in order
CompMarkers(pins) == [i \in 1..Len(pins) |-> CompMarker(pins[i])]

\* restorePins of the comp-type draft: bulk replacement of the three buckets
\* and of the markers, the id counter advanced past every restored id
RestoreBuckets(c, b) ==
    [c EXCEPT !.salePins = b.salePins, !.rentPins = b.rentPins,
              !.landPins = b.landPins,
              !.markers = CompMarkers(b.salePins \o b.rentPins \o b.landPins),
              !.nextPinId = RestoredNextId(@, b.salePins \o b.rentPins \o b.landPins)]

\* the bucket of a comp type
Bucket(c, type) ==
    CASE type = "sales" -> c.salePins
      [] type = "rent" -> c.rentPins
      [] OTHER -> c.landPins

\* the pin of the marker m belongs to the bucket of the comp type
InBucket(c, type, m) ==
    \E i \in 1..Len(Bucket(c, type)) : Bucket(c, type)[i].id = m.id

\* a mutation of switchCompType: the active comp type changes, the markers
\* are left as they are
SwitchWithoutFilter(c, type) == [c EXCEPT !.currentCompType = type]

\* switchCompType of the comp-type draft: the active comp type of the map;
\* every marker of another comp type is hidden, the rest are shown
SwitchCompType(c, type) ==
    [c EXCEPT !.currentCompType = type,
              !.markers = [i \in 1..Len(c.markers) |->
                             [id |-> c.markers[i].id,
                              visible |-> InBucket(c, type, c.markers[i])]]]

\* a mutation of addPin: the new pin always goes to the sales bucket
AddCompPinToSales(c, lngLat) ==
    [c EXCEPT !.salePins = Append(@, NewPinData(@, c.nextPinId, lngLat)),
              !.markers = Append(@, CompMarker(NewPinData(c.salePins, c.nextPinId,
                                                          lngLat))),
              !.nextPinId = AdvancePinId(@)]

\* addPin of the comp-type draft: the new pin is numbered within, and
\* appended to, the bucket of the active comp type
AddCompPin(c, lngLat) ==
    LET pinData == NewPinData(Bucket(c, c.currentCompType), c.nextPinId, lngLat)
    IN CASE c.currentCompType = "sales" ->
              [c EXCEPT !.salePins = Append(@, pinData),
                        !.markers = Append(@, CompMarker(pinData)),
                        !.nextPinId = AdvancePinId(@)]
         [] c.currentCompType = "rent" ->
              [c EXCEPT !.rentPins = Append(@, pinData),
                        !.markers = Append(@, CompMarker(pinData)),
                        !.nextPinId = AdvancePinId(@)]
         [] OTHER ->
              [c EXCEPT !.landPins = Append(@, pinData),
                        !.markers = Append(@, CompMarker(pinData)),
                        !.nextPinId = AdvancePinId(@)]

\* loadExistingMap of the comp-type draft, from initializeMap to the
\* switchCompType call of the 'load' listener
LoadCompMap(state) ==
    /\ ~comp.open
    /\ state \in CompSaved
    /\ LET opened == OpenedCompMap(comp, state)
           arg == RestoreArgument(state)
           restored == IF arg.defined THEN RestoreBuckets(opened, arg.val)
                       ELSE opened
       IN comp' = SwitchCompType([restored EXCEPT !.radio = SavedCompType(state)],
                                 SavedCompType(state))
    /\ UNCHANGED <<mainVars, fetch, ui, save, nav>>

\* showEditorView of the comp-type draft, new map
NewCompMap ==
    /\ ~comp.open
    /\ comp' = [OpenedCompMap(comp, LegacyState(<<>>)) EXCEPT !.fresh = FALSE]
    /\ UNCHANGED <<mainVars, fetch, ui, save, nav>>

\* handleCompTypeChange: a radio button of the comp-type group is chosen
HandleCompTypeChange(type) ==
    /\ type \in CompTypes \ {comp.radio}
    /\ comp' = IF comp.open
               THEN SwitchCompType([comp EXCEPT !.radio = type, !.added = "none"],
                                   type)
               ELSE [comp EXCEPT !.radio = type]
    /\ UNCHANGED <<mainVars, fetch, ui, save, nav>>

\* a click on the map of the comp-type draft, off every marker
CompMapClick(lngLat) ==
    /\ comp.open
    /\ comp.nextPinId <= MaxCompPinId
    /\ comp' = [AddCompPin(comp, lngLat) EXCEPT !.fresh = FALSE,
                                                !.added = comp.currentCompType]
    /\ UNCHANGED <<mainVars, fetch, ui, save, nav>>

\* showListView of the comp-type draft: map.remove(), map = null
CloseCompMap ==
    /\ comp.open
    /\ comp' = NoCompMap(comp.radio, comp.nextPinId)
    /\ UNCHANGED <<mainVars, fetch, ui, save, nav>>

\* getMapState
GetMapState ==
    [camera |-> camera, basemap |-> userBasemap, pins |-> userPins,
     countyBoundaries |-> userCounty]

\* -------------------------------------------------------------- handleSave
\* the blank character of a name
Blank == " "

\* the values the map-name field takes when the user edits it
NameInputs == {<<>>, <<Blank>>}

RECURSIVE TrimStart(_)
TrimStart(s) ==
    IF s # <<>> /\ Head(s) = Blank THEN TrimStart(Tail(s)) ELSE s

RECURSIVE TrimEnd(_)
TrimEnd(s) ==
    IF s # <<>> /\ s[Len(s)] = Blank
    THEN TrimEnd(SubSeq(s, 1, Len(s) - 1))
    ELSE s

\* a mutation of handleSave: the name is taken as typed
NoTrim(s) == s

\* mapNameInput.value.trim()
Trim(s) == TrimEnd(TrimStart(s))

\* createMap: the id the store gives to the created template
NewTemplateId(created) == "n" \o ToString(created + 1)

\* the create calls of handleSave in flight
PendingCreates(s) == {i \in 1..Len(s.calls) : s.calls[i].op = "create"}

\* handleSave: the store call issued for the map: updateMap under
\* currentMapId, createMap without one
StoreCall(id, name, mapState) ==
    [op |-> IF id # Null THEN "update" ELSE "create",
     id |-> id, name |-> name, state |-> mapState, current |-> TRUE]

\* handleSave: the dialog it opens before any store call, "none" when it
\* goes on to the store call
SaveNotice(s, hasMap) ==
    IF Trim(s.name) = <<>> THEN "saveNameRequired"
    ELSE IF ~hasMap THEN "saveNoMap"
    ELSE "saveRequested"

\* handleSave up to its await
SaveRequested(s, id, hasMap, mapState) ==
    IF Trim(s.name) = <<>>
    THEN s
    ELSE IF ~hasMap
    THEN s
    ELSE [s EXCEPT !.disabled = TRUE,
                   !.calls = Append(@, StoreCall(id, Trim(s.name), mapState))]

\* the map name is edited
TypeName(name) ==
    /\ currentView = "editor"
    /\ name \in NameInputs \cup {NewMapName}
    /\ name # save.name
    /\ save' = NamedAs(save, name)
    /\ lastOp' = "none"
    /\ UNCHANGED <<currentView, currentMapId, mapExists, camera, userPins,
                   pinsShared, userCounty, userBasemap, defaultPins,
                   mapMarkers, nextPinId, clickHandlers, dragging,
                   styleLoaded, source, layer, toggleChecked, selectedUI,
                   basemapRadio, countyCalls, switches, tasks, store,
                   pristine, resolved>>
    /\ UNCHANGED <<comp, fetch, ui, nav>>

\* handleSave, run by a click on the Save button (which a disabled button
\* does not deliver) or by the Enter key in the map-name field
HandleSave(trigger) ==
    /\ currentView = "editor"
    /\ trigger \in {"click", "enter"}
    /\ trigger = "click" => ~save.disabled
    /\ Len(save.calls) < MaxSaveCalls
    /\ save.created + Cardinality(PendingCreates(save)) < MaxCreated
    /\ save' = SaveRequested(save, currentMapId, mapExists, GetMapState)
    /\ lastOp' = SaveNotice(save, mapExists)
    /\ pristine' = FALSE
    /\ resolved' = {}
    /\ UNCHANGED <<currentView, currentMapId, mapExists, camera, userPins,
                   pinsShared, userCounty, userBasemap, defaultPins,
                   mapMarkers, nextPinId, clickHandlers, dragging,
                   styleLoaded, source, layer, toggleChecked, selectedUI,
                   basemapRadio, countyCalls, switches, tasks, store>>
    /\ UNCHANGED <<comp, fetch, ui, nav>>

\* handleSave after its store call resolved
SaveSucceeded(s, k, relevant) ==
    LET c == s.calls[k]
    IN [s EXCEPT
          !.calls = RemoveAt(@, k),
          !.created = IF c.op = "create" THEN @ + 1 ELSE @,
          !.lastSaved = relevant,
          !.baseline = IF c.current
                       THEN Relevant(c.state.pins, c.state.countyBoundaries)
                       ELSE @,
          !.disabled = FALSE,
          !.sessionCreates = IF c.op = "create" /\ c.current THEN @ + 1 ELSE @,
          !.sessionId = IF c.op = "create" /\ c.current /\ s.sessionCreates = 0
                        THEN NewTemplateId(s.created)
                        ELSE @]

\* a mutation of handleSave's catch: the Save button stays disabled
ButtonLeftDisabled(s, k) ==
    [s EXCEPT !.calls = RemoveAt(@, k)]

\* handleSave's catch
SaveFailed(s, k) ==
    [s EXCEPT !.calls = RemoveAt(@, k), !.disabled = FALSE]

\* the store call k of handleSave resolves: createMap returns the created
\* record, updateMap the updated one
SaveResolved(k) ==
    /\ k \in 1..Len(save.calls)
    /\ LET c == save.calls[k]
       IN /\ currentMapId' = IF c.op = "create"
                             THEN NewTemplateId(save.created)
                             ELSE currentMapId
          /\ store' = IF c.op = "update" /\ c.id \in DOMAIN store
                      THEN [store EXCEPT ![c.id] = c.state]
                      ELSE store
    /\ save' = SaveSucceeded(save, k, GetRelevantMapState)
    /\ lastOp' = "saved"
    /\ resolved' = {}
    /\ UNCHANGED <<currentView, mapExists, camera, userPins,
                   pinsShared, userCounty, userBasemap, defaultPins,
                   mapMarkers, nextPinId, clickHandlers, dragging,
                   styleLoaded, source, layer, toggleChecked, selectedUI,
                   basemapRadio, countyCalls, switches, tasks, pristine>>
    /\ UNCHANGED <<comp, fetch, ui>>
    /\ nav' = IF save.calls[k].op = "create"
              THEN Navigated(nav, UpdateUrl(NewTemplateId(save.created)))
              ELSE nav

\* the store call k of handleSave rejects
SaveRejected(k) ==
    /\ k \in 1..Len(save.calls)
    /\ save' = SaveFailed(save, k)
    /\ lastOp' = "saveFailed"
    /\ resolved' = {}
    /\ UNCHANGED <<currentView, currentMapId, mapExists, camera, userPins,
                   pinsShared, userCounty, userBasemap, defaultPins,
                   mapMarkers, nextPinId, clickHandlers, dragging,
                   styleLoaded, source, layer, toggleChecked, selectedUI,
                   basemapRadio, countyCalls, switches, tasks, store, pristine>>
    /\ UNCHANGED <<comp, fetch, ui, nav>>

\* the ids of the rendered markers, in list order
MarkerIds == [i \in 1..Len(mapMarkers) |-> mapMarkers[i].pinData.id]

\* ------------------------------------------------------------ specifications
\* a stored template is opened and its map loads
SessionOpen ==
    \/ \E id \in TemplateIds : HandleOpenMap(id)
    \/ \E t \in tasks : RafExisting(t)
    \/ \E t \in tasks : GetResolved(t)
    \/ \E t \in tasks : MapLoadExisting(t)

\* a new template is created, the editor is left
SessionOther ==
    \/ HandleCreateNew
    \/ \E t \in tasks : RafNew(t)
    \/ \E t \in tasks : MapLoadNew(t)
    \/ \E t \in tasks : GetFailed(t)
    \/ \E t \in tasks : ErrorDialogClosed(t)
    \/ HandleBackToList

Session == SessionOpen \/ SessionOther

PinOps ==
    \/ \E p \in LngLats : MapClick(p)
    \/ \E i \in 1..Len(mapMarkers) : DragStart(i)
    \/ \E p \in LngLats : DragEnd(p)
    \/ \E i \in 1..Len(mapMarkers) : GraceTimerFired(i)
    \/ \E i \in 1..Len(mapMarkers), v \in RenumberInputs : RenumberPin(i, v)
    \/ \E i \in 1..Len(mapMarkers) : DeletePin(i)

CountyOps ==
    \/ HandleCountyToggle
    \/ \E sel \in SUBSET Counties : HandleCountySelection(sel)
    \/ \E k \in 1..Len(countyCalls), oc \in FetchOutcomes : CountyFetchDone(k, oc)

BasemapOps ==
    \/ \E b \in Basemaps : HandleBasemapChange(b)
    \/ StyleLoadFired
    \/ IdleFired
    \/ \E c \in Cameras : MoveCamera(c)

\* the editor sessions, opened one at a time, and the pin handlers
Next == Session \/ PinOps

Spec == Init /\ [][Next]_vars

\* a template is opened before the load of an earlier one has finished
SessionOverlap == \E id \in TemplateIds : HandleOpenMapOverlapping(id)

\* the editor sessions, overlapping loads and the county overlay controls
NextOverlay == Session \/ SessionOverlap \/ CountyOps

SpecOverlay == InitOverlay /\ [][NextOverlay]_vars

\* one editor session on a stored template: the basemap switch, the county
\* overlay controls and the camera
NextBasemap == SessionOpen \/ CountyOps \/ BasemapOps

SpecBasemap == InitOverlay /\ [][NextBasemap]_vars

\* one session on the stored template with a pin: new pins, drags of the
\* markers, also in quick succession, clicks on them and the grace timers
NextDrag ==
    \/ HandleOpenMap("t1")
    \/ \E t \in tasks : RafExisting(t)
    \/ \E t \in tasks : GetResolved(t)
    \/ \E t \in tasks : MapLoadExisting(t)
    \/ \E i \in 1..Len(mapMarkers) : DragStart(i)
    \/ \E i \in 1..Len(mapMarkers) : DragStartEarly(i)
    \/ \E p \in LngLats : DragEnd(p)
    \/ \E i \in 1..Len(mapMarkers) : GraceTimerFired(i)
    \/ \E i \in 1..Len(mapMarkers) : MarkerClick(i)
    \/ \E p \in LngLats : MapClick(p)

SpecDrag == Init /\ [][NextDrag]_vars

\* one session on the stored template with an overlay: basemap switches,
\* also requested while an earlier one is pending, and the platform's signals
NextSwitches ==
    \/ HandleOpenMap("t1")
    \/ \E t \in tasks : RafExisting(t)
    \/ \E t \in tasks : GetResolved(t)
    \/ \E t \in tasks : MapLoadExisting(t)
    \/ \E b \in Basemaps : HandleBasemapChange(b)
    \/ \E b \in Basemaps : HandleBasemapChangeOverlapping(b)
    \/ StyleLoadFired
    \/ IdleFired
    \/ \E k \in 1..Len(countyCalls), oc \in FetchOutcomes : CountyFetchDone(k, oc)

SpecSwitches == InitOverlay /\ [][NextSwitches]_vars

\* the platform's signals are fair: a style that is being loaded finishes
\* loading, a map that has work left becomes idle, and the fetch of every
\* call returns: the calls of the user handlers (sw = 0) and the call of each
\* switchBasemap
SignalsFair ==
    /\ WF_vars(StyleLoadFired)
    /\ WF_vars(IdleFired)
    /\ \A t \in 0..MaxSwitches :
          WF_vars(\E k \in 1..Len(countyCalls), oc \in FetchOutcomes :
                     countyCalls[k].sw = t /\ CountyFetchDone(k, oc))

SpecBasemapFair == SpecBasemap /\ SignalsFair

\* the editor sessions and the browser's navigation, from a page opened with
\* any hash
NextUrl == Session \/ \E h \in Fragments : HandleUrlChange(h)

SpecUrl == InitUrl /\ [][NextUrl]_vars

\* stored templates opened from the list and through the URL, also while an
\* earlier load is pending, and saved
NextReload ==
    \/ SessionOpen
    \/ \E t \in tasks : GetFailed(t)
    \/ \E t \in tasks : ErrorDialogClosed(t)
    \/ \E h \in Fragments : HandleUrlChange(h)
    \/ HandleSave("click")
    \/ \E k \in 1..Len(save.calls) : SaveResolved(k)
    \/ \E k \in 1..Len(save.calls) : SaveRejected(k)

SpecReload == Init /\ [][NextReload]_vars

\* the map name, the Save button, the Enter key and the store's answers
SaveOps ==
    \/ \E name \in NameInputs \cup {NewMapName} : TypeName(name)
    \/ HandleSave("click")
    \/ HandleSave("enter")
    \/ \E k \in 1..Len(save.calls) : SaveResolved(k)
    \/ \E k \in 1..Len(save.calls) : SaveRejected(k)

\* editor sessions of a new template and of template t1 with saves; the
\* first pin of the page is added between the saves
NextSave ==
    \/ HandleCreateNew
    \/ \E t \in tasks : RafNew(t)
    \/ \E t \in tasks : MapLoadNew(t)
    \/ HandleOpenMap("t1")
    \/ \E t \in tasks : RafExisting(t)
    \/ \E t \in tasks : GetResolved(t)
    \/ \E t \in tasks : MapLoadExisting(t)
    \/ HandleBackToList
    \/ SaveOps
    \/ (nextPinId = 1 /\ MapClick(PA))

SpecSave == Init /\ [][NextSave]_vars

\* fetchGeorgiaCounties on its own, for every request list and fetch outcome
NextFetch == FetchReturns

SpecFetch == InitFetch /\ [][NextFetch]_vars

\* the comp-type draft: load, new map, comp-type radio group, map click
NextComp ==
    \/ \E state \in CompSaved : LoadCompMap(state)
    \/ NewCompMap
    \/ \E type \in CompTypes : HandleCompTypeChange(type)
    \/ \E p \in LngLats : CompMapClick(p)
    \/ CloseCompMap

SpecComp == Init /\ [][NextComp]_vars

\* template loads, also overlapping ones started by popstate events, and
\* clicks on the map and on its markers
NextClicks ==
    \/ SessionOpen
    \/ \E h \in Fragments : HandleUrlChange(h)
    \/ \E p \in LngLats : MapClick(p)
    \/ \E i \in 1..Len(mapMarkers) : MarkerClick(i)

SpecClicks == Init /\ [][NextClicks]_vars

\* ------------------------------------------------------------ image export
\* the variables handleExportImage does not touch
notExport ==
    <<currentView, currentMapId, mapExists, camera, userPins, pinsShared,
      userCounty, userBasemap, defaultPins, mapMarkers, nextPinId,
      clickHandlers, dragging, styleLoaded, source, layer, toggleChecked,
      selectedUI, basemapRadio, countyCalls, switches, tasks, store,
      pristine, resolved, comp, fetch, save, nav>>

\* handleExportImage up to its first await: the Export button disabled, the
\* display values of the controls remembered, the controls hidden
ExportStarted(e) ==
    [e EXCEPT !.phase = "settle", !.disabled = TRUE,
              !.origMap = e.mapControls, !.origComp = e.compTypeControls,
              !.mapControls = Hidden, !.compTypeControls = Hidden]

\* handleExportImage after html2canvas resolved, to its end
ExportSucceeded(e) ==
    [e EXCEPT !.phase = "idle", !.disabled = FALSE,
              !.mapControls = e.origMap, !.compTypeControls = e.origComp]

\* a mutation of handleExportImage's catch: the controls stay hidden
ControlsLeftHidden(e) ==
    [e EXCEPT !.phase = "idle", !.disabled = FALSE]

\* handleExportImage's catch
ExportFailed(e) ==
    [e EXCEPT !.phase = "idle", !.disabled = FALSE,
              !.mapControls = Shown, !.compTypeControls = Shown]

\* handleExportImage after html2canvas resolved, to the exception thrown
\* behind the restore of the controls
ExportFailedLate(e) == ExportFailed(ExportSucceeded(e))

\* a click on the Export button (a disabled button delivers none)
HandleExportImage ==
    /\ currentView = "editor"
    /\ ~ui.export.disabled
    /\ IF mapExists
       THEN /\ ui' = [ui EXCEPT !.export = ExportStarted(@)]
            /\ lastOp' = "exportStarted"
       ELSE /\ ui' = ui
            /\ lastOp' = "exportNoMap"
    /\ UNCHANGED notExport

\* the 100 ms timer of handleExportImage fires: html2canvas is called
ExportSettled ==
    /\ ui.export.phase = "settle"
    /\ ui' = [ui EXCEPT !.export.phase = "canvas"]
    /\ lastOp' = "none"
    /\ UNCHANGED notExport

\* html2canvas resolves: the controls are restored, the image is downloaded
\* under a name made of mapNameInput.value and map.userData.currentCompType;
\* toDataURL throws on a tainted canvas, and map.userData on a map that
\* showListView has set to null in the meantime
ExportCanvasDone(tainted) ==
    /\ ui.export.phase = "canvas"
    /\ IF tainted \/ ~mapExists
       THEN /\ ui' = [ui EXCEPT !.export = ExportFailedLate(@)]
            /\ lastOp' = "exportFailed"
       ELSE /\ ui' = [ui EXCEPT !.export = ExportSucceeded(@)]
            /\ lastOp' = "exported"
    /\ UNCHANGED notExport

\* html2canvas rejects
ExportCanvasFailed ==
    /\ ui.export.phase = "canvas"
    /\ ui' = [ui EXCEPT !.export = ExportFailed(@)]
    /\ lastOp' = "exportFailed"
    /\ UNCHANGED notExport

ExportOps ==
    \/ HandleExportImage
    \/ ExportSettled
    \/ \E tainted \in BOOLEAN : ExportCanvasDone(tainted)
    \/ ExportCanvasFailed

\* editor sessions with image exports
NextExport == Session \/ ExportOps

SpecExport == Init /\ [][NextExport]_vars

\* ---------------------------------------------------------- delete dialog
\* the variables the delete dialog does not touch
notDelete ==
    <<currentView, currentMapId, mapExists, camera, userPins, pinsShared,
      userCounty, userBasemap, defaultPins, mapMarkers, nextPinId,
      clickHandlers, dragging, styleLoaded, source, layer, toggleChecked,
      selectedUI, basemapRadio, countyCalls, switches, tasks, pristine,
      resolved, comp, fetch, save, nav>>

\* a mutation of handleDeleteMap: no 'wa-hide' listener, the handleConfirm
\* listeners stay on the confirm button when the dialog closes
HideListenerMissing(d) == [d EXCEPT !.open = FALSE]

\* the dialog closes and its 'wa-hide' listeners run: every handleConfirm
\* listener is removed from the confirm button
DialogHidden(d) == [d EXCEPT !.open = FALSE, !.listeners = <<>>]

\* handleDeleteMap: the Delete button of a card of the list; the dialog is
\* modal, no card can be clicked while it is open
HandleDeleteMap(id) ==
    /\ currentView = "list"
    /\ id \in DOMAIN store
    /\ ~ui.del.open
    /\ ui' = [ui EXCEPT !.del.open = TRUE,
                        !.del.target = id,
                        !.del.listeners = Append(@, id),
                        !.del.dismissed = @ \ {id},
                        !.del.issued = <<>>]
    /\ lastOp' = "deleteAsked"
    /\ UNCHANGED store
    /\ UNCHANGED notDelete

\* the delete dialog is dismissed (Cancel, Escape, the close button)
DeleteDismissed ==
    /\ ui.del.open
    /\ ui' = [ui EXCEPT !.del = [DialogHidden(@) EXCEPT
                                    !.dismissed = @ \cup {ui.del.target},
                                    !.issued = <<>>]]
    /\ lastOp' = "deleteDismissed"
    /\ UNCHANGED store
    /\ UNCHANGED notDelete

\* a click on the confirm button of the delete dialog: every handleConfirm
\* listener on it runs up to await deleteMap, then the dialog hides
DeleteConfirmed ==
    /\ ui.del.open
    /\ Len(ui.del.calls) + Len(ui.del.listeners) <= MaxDeleteCalls
    /\ ui' = [ui EXCEPT !.del = [DialogHidden(@) EXCEPT
                                    !.calls = @ \o ui.del.listeners,
                                    !.issued = ui.del.listeners]]
    /\ lastOp' = "deleteConfirmed"
    /\ UNCHANGED store
    /\ UNCHANGED notDelete

\* deleteMap resolves: the template is gone from the store (the list is
\* loaded again)
DeleteResolved(k) ==
    /\ k \in 1..Len(ui.del.calls)
    /\ store' = [id \in DOMAIN store \ {ui.del.calls[k]} |-> store[id]]
    /\ ui' = [ui EXCEPT !.del.calls = RemoveAt(@, k)]
    /\ lastOp' = "deleted"
    /\ UNCHANGED notDelete

\* deleteMap rejects: handleConfirm's catch opens the error dialog
DeleteRejected(k) ==
    /\ k \in 1..Len(ui.del.calls)
    /\ ui' = [ui EXCEPT !.del.calls = RemoveAt(@, k)]
    /\ lastOp' = "deleteFailed"
    /\ UNCHANGED store
    /\ UNCHANGED notDelete

\* the list view: the delete dialog and the store's answers
NextDelete ==
    \/ \E id \in TemplateIds : HandleDeleteMap(id)
    \/ DeleteDismissed
    \/ DeleteConfirmed
    \/ \E k \in 1..Len(ui.del.calls) : DeleteResolved(k)
    \/ \E k \in 1..Len(ui.del.calls) : DeleteRejected(k)

SpecDelete == Init /\ [][NextDelete]_vars

\* ------------------------------------------------------------------ claims
\* an editor map is open and no load continuation is pending
EditorSettled == mapExists /\ currentView = "editor" /\ tasks = {}

\* C1: after any sequence of editor sessions and pin operations, the ids of
\* map.userData.pins are exactly the ids of the markers of mapMarkers, in the
\* same order
PinsMatchMarkers == EditorSettled => Ids(userPins) = MarkerIds

\* C2: the pin list never contains two entries with the same id
PinIdsDistinct ==
    \A i, j \in 1..Len(userPins) : i # j => userPins[i].id # userPins[j].id

\* a pin was added to a list restored from a template
RestoredThenAdded ==
    /\ EditorSettled
    /\ lastOp = "addPin"
    /\ Len(userPins) = 2
    /\ Len(mapMarkers) = 2
    /\ mapMarkers[1].attached /\ ~mapMarkers[1].aliased

\* C3: a persisted state loaded into the editor and captured by getMapState
\* with no user action in between is equal to the persisted state in camera,
\* basemap, pin sequence and county overlay
RoundTripLaw ==
    (EditorSettled /\ currentMapId # Null /\ pristine /\ countyCalls = <<>>)
        => GetMapState = store[currentMapId]

\* C4: when no updateCountyBoundaries call and no basemap switch is in
\* progress, the layer county-boundaries-line is present iff the overlay is
\* enabled with a non-empty selection
OverlayIffEnabled ==
    (EditorSettled /\ styleLoaded /\ countyCalls = <<>> /\ switches = <<>>)
        => (layer.present <=>
               (userCounty.enabled /\ Len(userCounty.selectedCounties) > 0))

\* C5 as stated: when the promise of switchBasemap resolves, the camera equals
\* the camera that was current when switchBasemap was called
CameraKept == \A s \in resolved : camera = s.cam

\* C5: when the promise of switchBasemap resolves, the camera equals the camera
\* that was current when switchBasemap was called, unless the camera was moved
\* after the jumpTo of the call's style.load listener
CameraKeptUnlessMoved == \A s \in resolved : ~s.moved => camera = s.cam

\* a switch requested at a rotated, pitched camera has resolved unmoved
SwitchResolvedUnmoved ==
    \E s \in resolved : ~s.moved /\ s.cam = Camera2 /\ camera = Camera2

\* the overlay a switch had to restore: enabled with a non-empty selection
SnapshotShown(s) == s.county.enabled /\ Len(s.county.selectedCounties) > 0

\* the layer is present over a source of exactly the counties sel
OverlayShows(sel) == layer.present /\ source.present /\ source.names = sel

IsLegacyShape(state) ==
    /\ ~state.salePins.defined /\ ~state.rentPins.defined
    /\ ~state.landPins.defined
    /\ state.pins.defined /\ Len(state.pins.val) > 0

\* C7: restoring a persisted state of the legacy shape puts every legacy pin,
\* in its original order, into the sales bucket and leaves the rent and land
\* buckets empty
LegacyPinsGoToSales ==
    (comp.open /\ comp.fresh /\ IsLegacyShape(comp.from))
        => /\ comp.salePins = comp.from.pins.val
           /\ comp.rentPins = <<>>
           /\ comp.landPins = <<>>

\* a legacy state of two pins has been restored
LegacyLoaded ==
    /\ comp.open /\ comp.fresh
    /\ IsLegacyShape(comp.from)
    /\ Len(comp.from.pins.val) = 2
    /\ Len(comp.salePins) = 2

\* C8: addPin numbers the new pin with the count of the pins that exist
\* immediately before the call plus one, and appends it at the end of the list
AddPinNumbersAndAppends ==
    [][\A p \in LngLats :
         MapClick(p) =>
            /\ Len(userPins') > Len(userPins)
            /\ SubSeq(userPins', 1, Len(userPins)) = userPins
            /\ \A k \in (Len(userPins) + 1)..Len(userPins') :
                  /\ userPins'[k].number = k
                  /\ userPins'[k].lngLat = ToArray(p)]_vars

\* a second pin has been added behind a first one
SecondPinAdded ==
    /\ lastOp = "addPin"
    /\ Len(userPins) = 2
    /\ userPins[2].number = 2
    /\ userPins[2].id = PinIdOf(2)

\* C9: a pin created by a map click goes to the comp type that is active at
\* the time of the click, whatever the other buckets hold, and the buckets of
\* the other comp types are unchanged
ClickAddsToActiveCompType ==
    [][\A p \in LngLats :
         CompMapClick(p) =>
            \A type \in CompTypes :
               IF type = comp.currentCompType
               THEN /\ Len(Bucket(comp', type)) = Len(Bucket(comp, type)) + 1
                    /\ SubSeq(Bucket(comp', type), 1, Len(Bucket(comp, type)))
                          = Bucket(comp, type)
                    /\ Bucket(comp', type)[Len(Bucket(comp', type))].lngLat
                          = ToArray(p)
               ELSE Bucket(comp', type) = Bucket(comp, type)]_vars

\* a rent pin has been added while the sales bucket holds two pins
RentPinAddedBesideSales ==
    /\ comp.open
    /\ comp.added = "rent"
    /\ Len(comp.salePins) = 2
    /\ Len(comp.rentPins) = 1

\* C10: deletePin removes exactly the pin with the given id and its marker;
\* the id, position and number of every other pin and the order of the
\* remaining pins are unchanged
DeleteRemovesOnlyThatPin ==
    [][\A i \in 1..Len(mapMarkers) :
         DeletePin(i) =>
            LET id == mapMarkers[i].pinData.id
            IN /\ userPins' = SelectSeq(userPins, LAMBDA q : q.id # id)
               /\ Len(userPins') = Len(userPins) - 1
               /\ mapMarkers' = SelectSeq(mapMarkers, LAMBDA m : m.pinData.id # id)
               /\ Len(mapMarkers') = Len(mapMarkers) - 1]_vars

\* the first of two pins has been deleted, the second keeps its number
FirstOfTwoDeleted ==
    /\ lastOp = "deletePin"
    /\ Len(userPins) = 1
    /\ userPins[1].number = 2
    /\ Len(mapMarkers) = 1
    /\ mapMarkers[1].label = 2

\* C11: every id allocated by addPin is pin-<n> with n greater than the suffix
\* of every id allocated or restored earlier in the process: the counter
\* never decreases (restorePins never lowers it), it stays above the suffix of
\* every id held by a marker (markers are made by addPin and restorePins
\* only), and addPin allocates from the counter
IdsNeverReused ==
    [][/\ nextPinId' >= nextPinId
       /\ \A i \in 1..Len(mapMarkers') :
             ParseIdNum(mapMarkers'[i].pinData.id) < nextPinId'
       /\ \A p \in LngLats :
             MapClick(p) =>
                \A k \in (Len(userPins) + 1)..Len(userPins') :
                   /\ userPins'[k].id.prefix = "pin"
                   /\ userPins'[k].id.num >= nextPinId
                   /\ \A j \in 1..(k - 1) :
                         ParseIdNum(userPins'[j].id) < userPins'[k].id.num]_vars

\* a pin restored from template t1 was deleted and the next pin added took
\* the id after the restored one
AddedAfterRestoredDeleted ==
    /\ lastOp = "addPin"
    /\ currentMapId = "t1"
    /\ Len(userPins) = 1
    /\ userPins[1].id = PinIdOf(2)
    /\ nextPinId = 3

\* the value typed into the Renumber prompt is a valid positive integer
IsPositiveInteger(v) == v.kind = "int" /\ v.n > 0

\* C12: renumbering with a value that is not a valid positive integer (empty,
\* non-numeric, zero or negative) leaves the pin's number and its marker
\* label unchanged
RenumberRejectsInvalid ==
    [][\A i \in 1..Len(mapMarkers) : \A v \in RenumberInputs :
         (RenumberPin(i, v) /\ ~IsPositiveInteger(v)) =>
            /\ mapMarkers'[i].pinData.number = mapMarkers[i].pinData.number
            /\ mapMarkers'[i].label = mapMarkers[i].label
            /\ userPins' = userPins]_vars

\* C13: renumbering makes no uniqueness check: a renumbering to any integer,
\* also one that another pin already has, sets the number and the label of
\* that pin, and no other pin or marker is changed
RenumberAllowsDuplicates ==
    [][\A i \in 1..Len(mapMarkers) : \A v \in RenumberInputs :
         (RenumberPin(i, v) /\ v.kind = "int") =>
            LET id == mapMarkers[i].pinData.id
            IN /\ mapMarkers' = [mapMarkers EXCEPT ![i].pinData.number = v.n,
                                                   ![i].label = v.n]
               /\ userPins' = [k \in 1..Len(userPins) |->
                                 IF userPins[k].id = id
                                 THEN [userPins[k] EXCEPT !.number = v.n]
                                 ELSE userPins[k]]]_vars

\* the features the file of one requested name has to contribute
Contribution(name, outcome) ==
    IF outcome # "ok" THEN <<>>
    ELSE IF CountyFile(name).type = "FeatureCollection"
         THEN CountyFile(name).features
         ELSE <<CountyFile(name).self>>

\* C14: for every list of requested names and every per-name fetch outcome,
\* fetchGeorgiaCounties returns a FeatureCollection whose features are, in
\* request order, all features of each fetched collection and the feature of
\* each fetched single-feature file; failed names contribute nothing
FetchMergesInOrder ==
    fetch.done =>
        LET names == fetch.names
            n == Len(names)
            part(i) == Contribution(names[i], fetch.outcomes[names[i]])
            features == fetch.result.features
        IN /\ fetch.result.type = "FeatureCollection"
           /\ \E off \in [1..(n + 1) -> 0..(2 * n)] :
                 /\ off[1] = 0
                 /\ \A i \in 1..n : off[i + 1] = off[i] + Len(part(i))
                 /\ Len(features) = off[n + 1]
                 /\ \A i \in 1..n :
                       SubSeq(features, off[i] + 1, off[i + 1]) = part(i)

\* a single Feature file and a collection were requested in that order and
\* both were fetched
MixedFetchReturned ==
    /\ fetch.done
    /\ fetch.names = <<"White", "Hall">>
    /\ fetch.result.features = <<"White-1", "Hall-1", "Hall-2">>

\* a call whose first file failed over HTTP returned the features of the second
FailedNameSkipped ==
    /\ fetch.done
    /\ fetch.names = <<"Hall", "Banks">>
    /\ fetch.outcomes["Hall"] = "httpError"
    /\ fetch.outcomes["Banks"] = "ok"
    /\ fetch.result.features = <<"Banks-1">>

\* the store calls in flight that handleSave issued in the editor session
\* that is open
SessionCalls == {i \in 1..Len(save.calls) : save.calls[i].current}

\* C16: while the store call of a save is in flight, no second create or
\* update call is issued for the same editor, by the Save button or by the
\* Enter key in the map-name field
NoDuplicateSubmission ==
    currentView = "editor" => Cardinality(SessionCalls) <= 1

\* C15: in an editor session of a new template the first successful save
\* creates one template and binds the editor to its id, later saves update
\* that id and create no further template; in a session of an existing
\* template every save updates that template
OneTemplatePerSession ==
    /\ save.sessionCreates <= 1
    /\ save.sessionCreates = 1 => currentMapId = save.sessionId
    /\ \A i \in SessionCalls :
          save.calls[i].op = "update" => save.calls[i].id = save.sessionId

\* C17: handleSave with an empty or whitespace-only name issues no store
\* call and changes neither currentMapId, the pins, the county overlay nor
\* the Save button; only the warning is shown
EmptyNameBlocksSave ==
    [][\A trigger \in {"click", "enter"} :
         (HandleSave(trigger) /\ (save.name = <<>> \/ save.name = <<Blank>>)) =>
            /\ save' = save
            /\ lastOp' = "saveNameRequired"
            /\ UNCHANGED <<currentMapId, userPins, userCounty, mapMarkers,
                           store>>]_vars

\* a save was asked for with a whitespace-only name while a map was open
BlankNameWarned ==
    /\ lastOp = "saveNameRequired"
    /\ save.name = <<Blank>>
    /\ mapExists
    /\ save.calls = <<>>
    /\ ~save.disabled

\* C18: when the store call of a save fails, currentMapId, the pin list, the
\* county overlay state and the last-saved state are unchanged, the Save
\* button is enabled again and no call is issued in place of the failed one
FailedSaveChangesNothing ==
    [][\A k \in 1..Len(save.calls) :
         SaveRejected(k) =>
            /\ UNCHANGED <<currentMapId, userPins, userCounty, mapMarkers,
                           store>>
            /\ save'.lastSaved = save.lastSaved
            /\ save'.created = save.created
            /\ ~save'.disabled
            /\ save'.calls = RemoveAt(save.calls, k)]_vars

\* the createMap call of a new template with one pin was rejected
CreateRejected ==
    /\ lastOp = "saveFailed"
    /\ currentView = "editor"
    /\ currentMapId = Null
    /\ Len(userPins) = 1
    /\ save.calls = <<>>
    /\ save.created = 0
    /\ ~save.disabled

\* a step of switchBasemap: the call itself, its style.load listener, its idle
\* listener, and the return of the updateCountyBoundaries call it awaits
SwitchStep ==
    \/ \E b \in Basemaps : mapExists /\ HandleBasemapChange(b)
    \/ StyleLoadFired
    \/ IdleFired
    \/ \E k \in 1..Len(countyCalls), oc \in FetchOutcomes :
          countyCalls[k].cont = "switch" /\ CountyFetchDone(k, oc)

\* C19: no step of a basemap switch adds, removes or modifies a pin of
\* map.userData.pins or a marker of mapMarkers
BasemapSwitchKeepsPins ==
    [][SwitchStep => (userPins' = userPins /\ mapMarkers' = mapMarkers)]_vars

\* a switch to the gray basemap has resolved on a map that shows the marker of
\* its stored pin
SwitchResolvedWithMarker ==
    /\ \E s \in resolved : s.basemap = "gray" /\ userBasemap = "gray"
    /\ Len(userPins) = 1 /\ Len(mapMarkers) = 1
    /\ mapMarkers[1].pinData.id = userPins[1].id

\* the three buckets of the comp-type draft
CompBuckets(c) == <<c.salePins, c.rentPins, c.landPins>>

\* a marker of the comp-type draft is visible exactly when its pin belongs to
\* the active comp type
VisibleIffActive(c) ==
    \A i \in 1..Len(c.markers) :
        c.markers[i].visible <=> InBucket(c, c.currentCompType, c.markers[i])

\* C20: when switchCompType has switched the open map to a comp type, by the
\* radio group or by the load listener, a marker is visible if and only if
\* its pin belongs to that comp type; a switch by the radio group changes no
\* pin of any bucket, adds and removes none, and keeps every marker
SwitchFiltersMarkers ==
    [][/\ (comp.open /\ comp'.open /\ comp'.radio # comp.radio) =>
             /\ comp'.currentCompType = comp'.radio
             /\ VisibleIffActive(comp')
             /\ CompBuckets(comp') = CompBuckets(comp)
             /\ Ids(comp'.markers) = Ids(comp.markers)
       /\ (~comp.open /\ comp'.open /\ comp'.fresh) =>
             /\ comp'.currentCompType = comp'.radio
             /\ VisibleIffActive(comp')]_vars

\* the radio group has switched to sales a map restored with one sales pin and
\* one rent pin: the sales marker is shown, the rent marker hidden
RentMarkerHidden ==
    /\ comp.open /\ comp.currentCompType = "sales" /\ comp.added = "none"
    /\ Len(comp.salePins) = 1 /\ Len(comp.rentPins) = 1
    /\ \E i, j \in 1..Len(comp.markers) :
          /\ comp.markers[i].id = comp.salePins[1].id /\ comp.markers[i].visible
          /\ comp.markers[j].id = comp.rentPins[1].id /\ ~comp.markers[j].visible

\* the hash has the form '#map/<id>' with a non-empty id
NamesTemplate(h) == h.prefix = "#map/" /\ h.rest # ""

\* C21: a page loaded with a hash '#map/<id>', id non-empty, starts in the
\* editor with currentMapId = id; a popstate event with such a hash whose id
\* differs from currentMapId opens the editor with currentMapId = id; a
\* popstate event with a hash that names no template, while the editor is
\* shown, returns to the list with currentMapId = null
UrlAddressing ==
    /\ NamesTemplate(nav.loaded) =>
          currentView = "editor" /\ currentMapId = nav.loaded.rest
    /\ [][\A h \in Fragments :
             HandleUrlChange(h) =>
                /\ (NamesTemplate(h) /\ h.rest # currentMapId) =>
                      currentView' = "editor" /\ currentMapId' = h.rest
                /\ (~NamesTemplate(h) /\ currentView = "editor") =>
                      currentView' = "list" /\ currentMapId' = Null]_vars

\* a page loaded on template t1 has been moved to template t2 by a popstate
\* event
PopstateOpenedOther ==
    /\ nav.loaded = Fragment("#map/", "t1")
    /\ lastOp = "popstate"
    /\ currentView = "editor" /\ currentMapId = "t2"
    /\ nav.url = Fragment("#map/", "t2")

\* a popstate event without a hash has closed the editor
PopstateClosedEditor ==
    /\ lastOp = "popstate" /\ nav.url = NoFragment
    /\ currentView = "list" /\ mapExists = FALSE
    /\ nav.loaded = Fragment("#map/", "t1")

\* C22: when an updateCountyBoundaries call returns from its fetch after
\* another call, started while it was in flight or before, has added its
\* overlay, and no call is left in flight, the overlay on the map is the one
\* of the call that has just finished
LastFinisherWins ==
    [][\A k \in 1..Len(countyCalls), oc \in FetchOutcomes :
          (/\ CountyFetchDone(k, oc)
           /\ Len(countyCalls) = 1
           /\ source.present
           /\ ~countyCalls[k].stale /\ mapExists /\ styleLoaded)
          => /\ layer'.present /\ source'.present
             /\ source'.names = countyCalls[k].sel]_vars

\* the phase, before the step, of the switchBasemap call tagged t ("" if
\* there was none)
PhaseBefore(t) ==
    IF \E i \in 1..Len(switches) : switches[i].tag = t
    THEN switches[CHOOSE i \in 1..Len(switches) : switches[i].tag = t].phase
    ELSE ""

\* C23: every switchBasemap call passes its steps in order: it waits for
\* 'style.load', then (the style loaded) for 'idle', then for the return of
\* its updateCountyBoundaries call, and is resolved only from the wait for
\* 'idle' (nothing to restore) or from the return of that call; its overlay
\* call exists only while it waits for it, and a call waiting for
\* 'style.load' is never resolved
SwitchStepsInOrder ==
    [][/\ \A j \in 1..Len(switches') :
             LET sw == switches'[j]
                 before == PhaseBefore(sw.tag)
             IN /\ sw.phase = "style" => before \in {"", "style"}
                /\ sw.phase = "idle" =>
                      /\ before \in {"style", "idle"}
                      /\ before = "style" => styleLoaded'
                /\ sw.phase = "fetch" =>
                      /\ before \in {"idle", "fetch"}
                      /\ before = "idle" => styleLoaded
       /\ \A sw \in resolved' :
             /\ PhaseBefore(sw.tag) \in {"idle", "fetch"}
             /\ PhaseBefore(sw.tag) = "idle" => styleLoaded
             /\ \A j \in 1..Len(switches') : switches'[j].tag # sw.tag
       /\ \A k \in 1..Len(countyCalls') :
             (countyCalls'[k].cont = "switch" /\ ~countyCalls'[k].stale) =>
                \E j \in 1..Len(switches') :
                   /\ switches'[j].tag = countyCalls'[k].sw
                   /\ switches'[j].phase = "fetch"]_vars

\* a switch to the street basemap has resolved after its own
\* updateCountyBoundaries call returned and re-added the layer
SwitchResolvedAfterFetch ==
    \E sw \in resolved :
        /\ sw.basemap = "street" /\ sw.called /\ SnapshotShown(sw)
        /\ layer.present /\ styleLoaded /\ userBasemap = "street"

\* the switchBasemap call tagged t has not resolved yet
SwitchPending(t) == \E i \in 1..Len(switches) : switches[i].tag = t

\* C24: with fair platform signals, every switchBasemap call made on the map
\* of the editor is eventually resolved
SwitchEventuallyResolves ==
    \A t \in 1..MaxSwitches :
        SwitchPending(t) ~> (\E sw \in resolved : sw.tag = t)

\* a switch of template t2 to the satellite basemap has resolved and no
\* switch is pending
SatelliteSwitchResolved ==
    /\ currentMapId = "t2" /\ switches = <<>>
    /\ \E sw \in resolved : sw.basemap = "satellite" /\ userBasemap = "satellite"

\* marker i is inside the window from its dragstart until the grace timer
\* of the following dragend has fired (timers of equal delay fire in the
\* order they were started, so that timer is the last one pending)
InDragWindow(i) == dragging = i \/ mapMarkers[i].timers > 0

\* C25: a click on a marker between its dragstart and the firing of the grace
\* timer of the following dragend does not open the pin menu, and a click
\* after that timer has fired opens it
ClickSuppressedInWindow ==
    [][\A i \in 1..Len(mapMarkers) :
          MarkerClick(i) =>
             (lastOp' = "menuOpened" <=> ~InDragWindow(i))]_vars

\* C26: a marker is flagged isDragging in every state between its dragstart
\* and the following dragend
DraggedMarkerFlagged ==
    \A i \in 1..Len(mapMarkers) : dragging = i => mapMarkers[i].isDragging

\* C27: when a switchBasemap call resolves after a user handler changed the
\* county overlay while it was pending, map.userData.countyBoundaries is the
\* state of the user's latest change, and the overlay on the map is the one
\* of that state
UserChangeSurvivesSwitch ==
    \A sw \in resolved :
        sw.userChange.made =>
            /\ userCounty = sw.userChange.county
            /\ IF ShouldFetch(sw.userChange.county.enabled,
                              sw.userChange.county.selectedCounties)
               THEN OverlayShows(sw.userChange.county.selectedCounties)
               ELSE ~layer.present

\* C28: when the last pending switchBasemap call of a group of overlapping
\* calls resolves, map.userData.basemap is the basemap of the last request,
\* the one last passed to setStyle, and the county layer is present at most
\* once, over its source
LastRequestedBasemapWins ==
    \A sw \in resolved :
        (sw.overlapped /\ switches = <<>>) =>
            /\ userBasemap = sw.latestType
            /\ layer.present => source.present

\* two overlapping switches, the first to gray and the second to street,
\* have both resolved
OverlappingSwitchesResolved ==
    /\ switches = <<>> /\ userBasemap = "street"
    /\ \E sw \in resolved :
          sw.overlapped /\ sw.basemap = "gray" /\ sw.latestType = "street"

\* C29: once the map of an editor session has loaded, every pin of the state
\* getMapState captures is the pin of a marker added or restored on that map
\* (a marker of an earlier session is no longer attached to a map)
PinsOfCurrentSession ==
    EditorSettled =>
        \A k \in 1..Len(GetMapState.pins) :
            \E i \in 1..Len(mapMarkers) :
                /\ mapMarkers[i].attached
                /\ mapMarkers[i].pinData.id = GetMapState.pins[k].id

\* C30: when every load has finished and the user has done nothing on the
\* map since, a save of the open stored template issues updateMap under
\* currentMapId with the state of that very template
SaveWritesOwnState ==
    [][(/\ HandleSave("click")
        /\ EditorSettled /\ pristine /\ countyCalls = <<>>
        /\ currentMapId \in DOMAIN store
        /\ Len(save'.calls) > Len(save.calls))
       => LET c == save'.calls[Len(save'.calls)]
          IN /\ c.op = "update" /\ c.id = currentMapId
             /\ c.state = store[c.id]]_vars


\* C31: in every reachable state the list view holds no template id and no
\* map instance, also when a getMapById or a createMap that was in flight
\* when the user returned to the list completes afterwards
ListViewHoldsNoMap ==
    currentView = "list" => (currentMapId = Null /\ ~mapExists)


\* C32: a drag end changes only the position of the dragged pin, to the
\* marker's final position: the id and number of the dragged pin, every other
\* pin and the order of the pins are unchanged
DragEndMovesOnlyThatPin ==
    [][\A lngLat \in LngLats :
         DragEnd(lngLat) =>
            LET id == mapMarkers[dragging].pinData.id
            IN userPins' = [k \in 1..Len(userPins) |->
                              IF userPins[k].id = id
                              THEN [userPins[k] EXCEPT !.lngLat = ToArray(lngLat)]
                              ELSE userPins[k]]]_vars


\* C34: with a map open and no load or save in flight, handleBackToList shows
\* the discard-changes prompt if and only if the pins or the county overlay
\* state differ from those the template in the editor was loaded with or last
\* saved with (a new, never saved template: created with); it looks at
\* nothing else, so a camera-only change causes no prompt
BackPromptsIffChanged ==
    [][(HandleBackToList /\ EditorSettled
            /\ countyCalls = <<>> /\ save.calls = <<>>)
          => ((lastOp' = "discardPrompt")
                 <=> (GetRelevantMapState # save.baseline))]_vars


\* C33: handleSave disables the Save button before it issues its store call,
\* the button is disabled as long as a store call of handleSave is in
\* flight, and the step in which the last call in flight resolves or rejects
\* enables it again
SaveButtonFollowsCall ==
    /\ [](save.calls # <<>> => save.disabled)
    /\ [][(\E trigger \in {"click", "enter"} : HandleSave(trigger))
             /\ Len(save'.calls) > Len(save.calls)
          => save'.disabled]_vars
    /\ [][(\E k \in 1..Len(save.calls) : SaveResolved(k) \/ SaveRejected(k))
             /\ save'.calls = <<>>
          => ~save'.disabled]_vars

\* C35: every click on the confirm button of the delete dialog issues
\* exactly one deleteMap call, for the template the dialog was most recently
\* opened for, and none for a template whose dialog was dismissed
OneDeletePerConfirmation ==
    [][DeleteConfirmed =>
          /\ ui'.del.issued = <<ui.del.target>>
          /\ ui'.del.calls = Append(ui.del.calls, ui.del.target)
          /\ \A i \in 1..Len(ui'.del.issued) :
                ui'.del.issued[i] \notin ui.del.dismissed]_vars

\* the dialog of t1 was dismissed, the dialog of t2 was confirmed, and the
\* store has deleted t2 and kept t1
DismissedTemplateKept ==
    /\ lastOp = "deleted"
    /\ "t1" \in ui.del.dismissed
    /\ DOMAIN store = {"t1"}

\* the persisted state holds at least one of the three per-category fields
HasCategoryField(state) ==
    state.salePins.defined \/ state.rentPins.defined \/ state.landPins.defined

\* the pins a per-category field of a persisted state holds
FieldPins(f) == IF f.defined THEN f.val ELSE <<>>

\* C36: a load of a persisted state that holds a per-category pin field,
\* even an empty one, restores the per-category fields and ignores the
\* legacy list; the legacy list is restored only when none of the three
\* fields is present
CategoryFieldsBeforeLegacy ==
    (comp.open /\ comp.fresh) =>
        IF HasCategoryField(comp.from)
        THEN /\ comp.salePins = FieldPins(comp.from.salePins)
             /\ comp.rentPins = FieldPins(comp.from.rentPins)
             /\ comp.landPins = FieldPins(comp.from.landPins)
        ELSE /\ comp.salePins = FieldPins(comp.from.pins)
             /\ comp.rentPins = <<>>
             /\ comp.landPins = <<>>

\* a state with an empty sales bucket and a legacy list of one pin has been
\* loaded: no pin was restored
LegacyListIgnored ==
    /\ comp.open /\ comp.fresh
    /\ comp.from.salePins.defined /\ comp.from.salePins.val = <<>>
    /\ comp.from.pins.defined /\ Len(comp.from.pins.val) = 1
    /\ comp.salePins = <<>> /\ comp.markers = <<>>

\* C37: a click that hits a marker adds no pin and no marker; every other
\* click on the map adds exactly one pin to the pin list and exactly one
\* marker, bound to that pin
ClickAddsOnePinOrNone ==
    /\ [][\A i \in 1..Len(mapMarkers) :
            MarkerClick(i) => UNCHANGED <<userPins, mapMarkers>>]_vars
    /\ [][\A p \in LngLats :
            MapClick(p) =>
               /\ Len(userPins') = Len(userPins) + 1
               /\ Len(mapMarkers') = Len(mapMarkers) + 1
               /\ mapMarkers'[Len(mapMarkers')].pinData
                     = userPins'[Len(userPins')]]_vars

\* C38: when getMapById fails while the editor is opened, the step creates no
\* map instance, hides the loading indicator and shows the error notice; the
\* step that dismisses the notice ends in the list view with currentMapId
\* null
FailedLoadReturnsToList ==
    /\ [][\A t \in tasks :
            GetFailed(t) =>
               /\ mapExists' = mapExists
               /\ ~ui'.loading
               /\ \E e \in tasks' : e.kind = "errorDialog" /\ e.id = t.id]_vars
    /\ [][\A t \in tasks :
            ErrorDialogClosed(t) =>
               /\ currentView' = "list"
               /\ currentMapId' = Null]_vars

\* the load of a template failed and its error notice has been dismissed: the
\* list is shown, without a map and without the loading indicator
FailedLoadDismissed ==
    /\ lastOp = "errorDismissed"
    /\ currentView = "list" /\ currentMapId = Null
    /\ ~mapExists /\ ~ui.loading /\ tasks = {}

\* the map controls and the comp-type controls are shown and the Export
\* button is enabled
ControlsBack(e) ==
    /\ e.mapControls = Shown /\ e.compTypeControls = Shown
    /\ ~e.disabled

====
